---- MODULE Spec2Model ----
(***************************************************************************)
(* Tool-call mediation layer: the hook engine (HookEngine.ts), the four    *)
(* pre-hooks, the three post-hooks, the intent store, the structural       *)
(* hasher, the mutation classifier and the dispatch wrapper                *)
(* (dispatchWithHooks).                                                    *)
(*                                                                         *)
(* JavaScript values are modelled as tagged records [t, s] so that a       *)
(* parameter may be undefined, a string (possibly empty) or a non-string.  *)
(* File contents and paths are the literal texts; the external parser and  *)
(* Node's path module are tables over the texts the model uses.            *)
(***************************************************************************)
EXTENDS Naturals, Sequences, FiniteSets, TLC

VARIABLES
    workload,     \* which host workload is explored: "single" or "concurrent"
    registered,   \* index.ts: let _registered
    preHooks,     \* HookEngine.preHooks  (names, in registration order)
    postHooks,    \* HookEngine.postHooks (names, in registration order)
    intentsFile,  \* <ws>/.orchestration/active_intents.yaml
    ignoreFile,   \* <ws>/.intentignore
    files,        \* the files the tools target, by absolute path
    ledger,       \* <ws>/.orchestration/agent_trace.jsonl, one entry per line
    claudeMd,     \* <ws>/CLAUDE.md
    call,         \* per session: the dispatchWithHooks activation in flight
    dispatched,   \* number of dispatches started so far
    audit,        \* history: what the finished dispatches did
    probe,        \* a call of the hasher, the classifier or a hook: arguments, results
    lastUpdate    \* the last call of updateIntentStatus: arguments, outcome

vars == <<workload, registered, preHooks, postHooks, intentsFile, ignoreFile,
          files, ledger, claudeMd, call, dispatched, audit, probe, lastUpdate>>

---------------------------------------------------------------------------
(* Bounds of the exploration *)

MaxDispatches == 2

\* how many times registerAllHooks is called in one process, at most
MaxRegistrations == 2

\* how many times a human edits the intent file during a run, at most
MaxEdits == 1

---------------------------------------------------------------------------
(* JavaScript values *)

Undefined == [t |-> "undefined", s |-> ""]

Str(x) == [t |-> "string", s |-> x]

NonString(x) == [t |-> "number", s |-> x]

\* typeof v === "string"
IsString(v) == v.t = "string"

\* JavaScript truthiness of v (for the values the model uses)
Truthy(v) ==
    CASE v.t = "undefined" -> FALSE
      [] v.t = "string"    -> v.s # ""
      [] OTHER             -> v.s # "0"

---------------------------------------------------------------------------
(* Tool name sets *)

DESTRUCTIVE_TOOLS ==
    { "write_file", "write_to_file", "create_file", "apply_diff", "apply_patch",
      "edit", "search_and_replace", "search_replace", "edit_file",
      "insert_code_block", "replace_in_file", "delete_file",
      "execute_command", "run_terminal_command", "generate_image" }

SAFE_TOOLS ==
    { "read_file", "list_files", "list_directory", "search_files", "get_file_info",
      "codebase_search", "read_command_output", "select_active_intent",
      "attempt_completion", "ask_followup_question", "switch_mode", "use_mcp_tool",
      "access_mcp_resource", "run_slash_command", "skill", "update_todo_list",
      "new_task" }

READ_ONLY_TOOLS ==
    { "read_file", "list_files", "list_directory", "search_files", "get_file_info",
      "select_active_intent", "attempt_completion", "ask_followup_question",
      "switch_mode", "codebase_search", "read_command_output", "use_mcp_tool",
      "access_mcp_resource", "new_task", "run_slash_command", "skill",
      "update_todo_list" }

WRITE_TOOLS ==
    { "write_file", "write_to_file", "create_file", "apply_diff", "apply_patch",
      "edit", "search_and_replace", "search_replace", "edit_file",
      "insert_code_block", "replace_in_file" }

TRACED_TOOLS ==
    { "write_file", "write_to_file", "create_file", "apply_diff", "apply_patch",
      "edit", "search_and_replace", "search_replace", "edit_file",
      "insert_code_block", "replace_in_file", "delete_file" }

PATH_PARAMS == <<"path", "file_path", "target_file", "destination">>

\* a tool name outside every set
UnknownTool == "browser_action"

---------------------------------------------------------------------------
(* Paths: Node's path module over the targets the model uses *)

WS == "/ws"

\* target as the agent gives it, its absolute form, path.relative(WS, abs)
\* split at "/", and path.extname(abs).toLowerCase()
PathTable ==
    { [target |-> "src/api/routes.ts", abs |-> "/ws/src/api/routes.ts",
       rel |-> "src/api/routes.ts", segs |-> <<"src", "api", "routes.ts">>, ext |-> ".ts"],
      [target |-> "src/ui/button.tsx", abs |-> "/ws/src/ui/button.tsx",
       rel |-> "src/ui/button.tsx", segs |-> <<"src", "ui", "button.tsx">>, ext |-> ".tsx"],
      [target |-> "README.md", abs |-> "/ws/README.md",
       rel |-> "README.md", segs |-> <<"README.md">>, ext |-> ".md"],
      [target |-> "/etc/hosts.js", abs |-> "/etc/hosts.js",
       rel |-> "../etc/hosts.js", segs |-> <<"..", "etc", "hosts.js">>, ext |-> ".js"] }

Targets == { p.target : p \in PathTable }

AbsPaths == { p.abs : p \in PathTable }

\* path.isAbsolute(t) ? t : path.join(ws, t)
ResolveAbsolute(t) == (CHOOSE p \in PathTable : p.target = t).abs

PathOf(abs) == CHOOSE p \in PathTable : p.abs = abs

\* path.relative(ws, abs).replace(/\\/g, "/")
toRelativePath(abs) == PathOf(abs).rel

extname(abs) == PathOf(abs).ext

\* extname of one path segment (for patterns such as *.md)
SegExt(seg) ==
    CASE seg = "README.md" -> ".md"
      [] seg = "routes.ts" -> ".ts"
      [] seg = "button.tsx" -> ".tsx"
      [] seg = "hosts.js" -> ".js"
      [] OTHER -> ""

---------------------------------------------------------------------------
(* Glob patterns: minimatch(relative, pattern, {dot: true}) *)

PatternSegs(pattern) ==
    CASE pattern = "src/api/**" -> <<"src", "api", "**">>
      [] pattern = "src/*/routes.ts" -> <<"src", "*", "routes.ts">>
      [] pattern = "*.md" -> <<"*.md">>
      [] pattern = "**" -> <<"**">>
      [] OTHER -> <<pattern>>

\* one pattern segment against one path segment; "." and ".." are never
\* matched by a wildcard
SegMatch(ps, seg) ==
    CASE ps = "*"    -> seg \notin {".", ".."}
      [] ps = "*.md" -> seg \notin {".", ".."} /\ SegExt(seg) = ".md"
      [] OTHER       -> ps = seg

RECURSIVE GlobMatch(_, _)
GlobMatch(pat, segs) ==
    IF pat = <<>> THEN segs = <<>>
    ELSE IF Head(pat) = "**"
         THEN \/ GlobMatch(Tail(pat), segs)
              \/ /\ segs # <<>>
                 /\ Head(segs) \notin {".", ".."}
                 /\ GlobMatch(pat, Tail(segs))
         ELSE /\ segs # <<>>
              /\ SegMatch(Head(pat), Head(segs))
              /\ GlobMatch(Tail(pat), Tail(segs))

minimatch(rel, pattern) ==
    GlobMatch(PatternSegs(pattern), (CHOOSE p \in PathTable : p.rel = rel).segs)

---------------------------------------------------------------------------
(* File contents and the external parser (@typescript-eslint/typescript-estree) *)

SrcF1 == "export function f(a){}"

\* SrcF1 with a blank line added
SrcF1Spaced == "export function f(a){}\n\n"

SrcF2 == "export function f(a,b){}"

\* helper added, exported surface as SrcF1
SrcF1Helper == "function g(){}\nexport function f(a){}"

SrcBroken == "export function f(a{"

Notes == "# notes"

\* SrcF1 reindented, with trailing spaces
SrcF1Indented == "  export function f(a){}   "

\* nothing exported
SrcHelper == "function g(){}"

SrcHelperSpaced == "function g(){}\n"

\* the export f is a class, not a function
SrcClassF == "export class f{}"

\* a second export
SrcF1H == "export function f(a){}\nexport function h(){}"

\* the declarations of SrcF1H in the other order
SrcHF1 == "export function h(){}\nexport function f(a){}"

\* the export f declared twice, with one and with two parameters
SrcF12 == "export function f(a){}\nexport function f(a,b){}"

\* the declarations of SrcF12 in the other order
SrcF21 == "export function f(a,b){}\nexport function f(a){}"

SrcVars == "export const v = 1, w = g"

SrcDefault == "export default function(){}"

SrcRefs == "function g(){}\nexport { g, g as k }"

SrcBrokenSpaced == "export function f(a{\n"

Contents == { SrcF1, SrcF1Spaced, SrcF2, SrcF1Helper, SrcBroken, Notes, "" }

\* the texts the hasher and the classifier are tried on
SourceTexts ==
    Contents \cup { SrcF1Indented, SrcHelper, SrcHelperSpaced, SrcClassF, SrcF1H, SrcHF1,
                    SrcVars, SrcDefault, SrcRefs, SrcBrokenSpaced, SrcF12, SrcF21 }

\* One top-level ESTree node, flattened: its type, the type of the wrapped
\* declaration (ExportNamedDeclaration, ExportDefaultDeclaration), the declared
\* identifier, params.length, the types of the body's elements, the exported
\* names of a specifier list, and the declarators of a variable declaration.
AstNode(type, declType, name, nparams, children) ==
    [type |-> type, declType |-> declType, name |-> name, nparams |-> nparams,
     children |-> children, specifiers |-> <<>>, declarators |-> <<>>]

ExportedF(n) == AstNode("ExportNamedDeclaration", "FunctionDeclaration", Str("f"), n, <<>>)

ExportedH == AstNode("ExportNamedDeclaration", "FunctionDeclaration", Str("h"), 0, <<>>)

HelperG == AstNode("FunctionDeclaration", "", Str("g"), 0, <<>>)

\* parse(content, {...}): ok = FALSE when the parser throws
Parse(content) ==
    CASE content = SrcF1       -> [ok |-> TRUE, body |-> <<ExportedF(1)>>]
      [] content = SrcF1Spaced -> [ok |-> TRUE, body |-> <<ExportedF(1)>>]
      [] content = SrcF2       -> [ok |-> TRUE, body |-> <<ExportedF(2)>>]
      [] content = SrcF1Helper -> [ok |-> TRUE, body |-> <<HelperG, ExportedF(1)>>]
      [] content = ""          -> [ok |-> TRUE, body |-> <<>>]
      [] content = SrcF1Indented -> [ok |-> TRUE, body |-> <<ExportedF(1)>>]
      [] content \in {SrcHelper, SrcHelperSpaced} -> [ok |-> TRUE, body |-> <<HelperG>>]
      [] content = SrcClassF   ->
            [ok |-> TRUE,
             body |-> <<AstNode("ExportNamedDeclaration", "ClassDeclaration", Str("f"), 0, <<>>)>>]
      [] content = SrcF1H      -> [ok |-> TRUE, body |-> <<ExportedF(1), ExportedH>>]
      [] content = SrcHF1      -> [ok |-> TRUE, body |-> <<ExportedH, ExportedF(1)>>]
      [] content = SrcF12      -> [ok |-> TRUE, body |-> <<ExportedF(1), ExportedF(2)>>]
      [] content = SrcF21      -> [ok |-> TRUE, body |-> <<ExportedF(2), ExportedF(1)>>]
      [] content = SrcVars     ->
            [ok |-> TRUE,
             body |-> <<[AstNode("ExportNamedDeclaration", "VariableDeclaration", Undefined, 0, <<>>)
                            EXCEPT !.declarators =
                                <<[name |-> Str("v"), initType |-> "Literal"],
                                  [name |-> Str("w"), initType |-> "Identifier"]>>]>>]
      [] content = SrcDefault  ->
            [ok |-> TRUE,
             body |-> <<AstNode("ExportDefaultDeclaration", "FunctionDeclaration", Undefined, 0, <<>>)>>]
      [] content = SrcRefs     ->
            [ok |-> TRUE,
             body |-> <<HelperG,
                        [AstNode("ExportNamedDeclaration", "", Undefined, 0, <<>>)
                            EXCEPT !.specifiers = <<Str("g"), Str("k")>>]>>]
      [] OTHER                 -> [ok |-> FALSE, body |-> <<>>]

TS_EXTENSIONS == {".ts", ".tsx", ".js", ".jsx", ".mts", ".cts", ".mjs", ".cjs"}

\* crypto.createHash("sha256").update(x).digest("hex"): injective on the
\* texts of the model
Sha256Hex(x) == "sha256(" \o x \o ")"

---------------------------------------------------------------------------
(* Structural hasher *)

RECURSIVE JoinWith(_, _)
JoinWith(strs, sep) ==
    IF strs = <<>> THEN ""
    ELSE IF Len(strs) = 1 THEN Head(strs)
    ELSE Head(strs) \o sep \o JoinWith(Tail(strs), sep)

Quote(s) == "\"" \o s \o "\""

RECURSIVE MapQuote(_)
MapQuote(strs) ==
    IF strs = <<>> THEN <<>> ELSE <<Quote(Head(strs))>> \o MapQuote(Tail(strs))

\* a fingerprint node; name may be undefined, hasParams and exported say
\* whether the node carries paramCount / exported
FingerprintNode(type, name, hasParams, paramCount, exported, children) ==
    [type |-> type, name |-> name, hasParams |-> hasParams,
     paramCount |-> paramCount, exported |-> exported, children |-> children]

RECURSIVE ExportRefs(_)
ExportRefs(specs) ==
    IF specs = <<>> THEN <<>>
    ELSE <<FingerprintNode("export-ref", Head(specs), FALSE, 0, "absent", <<>>)>>
         \o ExportRefs(Tail(specs))

RECURSIVE VarNodes(_, _)
VarNodes(decls, exported) ==
    IF decls = <<>> THEN <<>>
    ELSE <<FingerprintNode("var", Head(decls).name, FALSE, 0, exported,
                           <<Head(decls).initType>>)>>
         \o VarNodes(Tail(decls), exported)

\* the nodes one top-level declaration of type t contributes
DeclFingerprint(t, node, exported) ==
    CASE t = "FunctionDeclaration" ->
            <<FingerprintNode("fn", node.name, TRUE, node.nparams, exported, node.children)>>
      [] t = "ClassDeclaration" ->
            <<FingerprintNode("class", node.name, FALSE, 0, exported, node.children)>>
      [] t = "TSInterfaceDeclaration" ->
            <<FingerprintNode("interface", node.name, FALSE, 0, exported, node.children)>>
      [] t = "TSTypeAliasDeclaration" ->
            <<FingerprintNode("type-alias", node.name, FALSE, 0, exported, <<>>)>>
      [] t = "VariableDeclaration" -> VarNodes(node.declarators, exported)
      [] OTHER -> <<>>

RECURSIVE extractFingerprints(_)
extractFingerprints(body) ==
    IF body = <<>> THEN <<>>
    ELSE LET node == Head(body)
             here ==
                CASE node.type = "ExportNamedDeclaration" ->
                        IF node.declType = "" THEN ExportRefs(node.specifiers)
                        ELSE DeclFingerprint(node.declType, node, "true")
                  [] node.type = "ExportDefaultDeclaration" ->
                        <<FingerprintNode("export-default",
                                          IF node.name.t = "undefined"
                                          THEN Str(node.declType) ELSE node.name,
                                          FALSE, 0, "true", <<>>)>>
                  [] OTHER -> DeclFingerprint(node.type, node, "false")
         IN  here \o extractFingerprints(Tail(body))

\* JSON.stringify of one fingerprint node: keys in insertion order, undefined
\* members left out
NodeJson(n) ==
    "{" \o "\"type\":" \o Quote(n.type)
        \o (IF n.name.t = "undefined" THEN "" ELSE ",\"name\":" \o Quote(n.name.s))
        \o (IF n.hasParams THEN ",\"paramCount\":" \o ToString(n.paramCount) ELSE "")
        \o (IF n.exported = "absent" THEN "" ELSE ",\"exported\":" \o n.exported)
        \o ",\"children\":[" \o JoinWith(MapQuote(n.children), ",") \o "]}"

RECURSIVE MapNodeJson(_)
MapNodeJson(nodes) ==
    IF nodes = <<>> THEN <<>> ELSE <<NodeJson(Head(nodes))>> \o MapNodeJson(Tail(nodes))

FingerprintJson(nodes) == "[" \o JoinWith(MapNodeJson(nodes), ",") \o "]"

hashRaw(content) ==
    [hash |-> "raw-sha256:" \o Sha256Hex(content), method |-> "raw", nodeCount |-> 0]

hashAst(content) ==
    LET fingerprints == extractFingerprints(Parse(content).body)
    IN  [hash |-> "ast-sha256:" \o Sha256Hex(FingerprintJson(fingerprints)),
         method |-> "ast", nodeCount |-> Len(fingerprints)]

\* a hasher without the parser: every content is hashed raw
hashCodeBlock_RawOnly(content, abs) == hashRaw(content)

hashCodeBlock(content, abs) ==
    IF extname(abs) \in TS_EXTENSIONS
    THEN IF Parse(content).ok THEN hashAst(content) ELSE hashRaw(content)
    ELSE hashRaw(content)

---------------------------------------------------------------------------
(* Exported API surface and the mutation classifier *)

\* an ExportSignature; hasParams says whether paramCount is set
ExportSignature(kind, name, hasParams, paramCount) ==
    [kind |-> kind, name |-> name, hasParams |-> hasParams, paramCount |-> paramCount]

\* x?.name ?? ""
NameOrEmpty(v) == IF v.t = "undefined" THEN "" ELSE v.s

RECURSIVE RefExports(_)
RefExports(specs) ==
    IF specs = <<>> THEN <<>>
    ELSE <<ExportSignature("ref", NameOrEmpty(Head(specs)), FALSE, 0)>>
         \o RefExports(Tail(specs))

RECURSIVE VarExports(_)
VarExports(decls) ==
    IF decls = <<>> THEN <<>>
    ELSE <<ExportSignature("var", NameOrEmpty(Head(decls).name), FALSE, 0)>>
         \o VarExports(Tail(decls))

RECURSIVE ExportsOfBody(_)
ExportsOfBody(body) ==
    IF body = <<>> THEN <<>>
    ELSE LET node == Head(body)
             t == node.declType
             here ==
                CASE node.type = "ExportNamedDeclaration" ->
                        (CASE t = "" -> RefExports(node.specifiers)
                           [] t = "FunctionDeclaration" ->
                                <<ExportSignature("fn", NameOrEmpty(node.name), TRUE, node.nparams)>>
                           [] t = "ClassDeclaration" ->
                                <<ExportSignature("class", NameOrEmpty(node.name), FALSE, 0)>>
                           [] t = "TSInterfaceDeclaration" ->
                                <<ExportSignature("interface", NameOrEmpty(node.name), FALSE, 0)>>
                           [] t = "TSTypeAliasDeclaration" ->
                                <<ExportSignature("type", NameOrEmpty(node.name), FALSE, 0)>>
                           [] t = "VariableDeclaration" -> VarExports(node.declarators)
                           [] OTHER -> <<>>)
                  [] node.type = "ExportDefaultDeclaration" ->
                        <<ExportSignature("default",
                                          IF node.name.t = "undefined" THEN "__default__"
                                          ELSE node.name.s, FALSE, 0)>>
                  [] OTHER -> <<>>
         IN  here \o ExportsOfBody(Tail(body))

\* an extraction that answers a parse error with a placeholder export
extractExports_PlaceholderOnError(content, abs) ==
    IF extname(abs) \notin TS_EXTENSIONS THEN <<>>
    ELSE IF ~Parse(content).ok THEN <<ExportSignature("default", "__default__", FALSE, 0)>>
    ELSE ExportsOfBody(Parse(content).body)

extractExports(content, abs) ==
    IF extname(abs) \notin TS_EXTENSIONS THEN <<>>
    ELSE IF ~Parse(content).ok THEN <<>>
    ELSE ExportsOfBody(Parse(content).body)

exportKey(sig) == sig.kind \o ":" \o sig.name

\* Map.set: a later signature with the same key replaces the value and keeps
\* the key's place
RECURSIVE MapSet(_, _, _)
MapSet(map, key, sig) ==
    IF map = <<>> THEN <<[key |-> key, sig |-> sig]>>
    ELSE IF Head(map).key = key THEN <<[key |-> key, sig |-> sig]>> \o Tail(map)
    ELSE <<Head(map)>> \o MapSet(Tail(map), key, sig)

RECURSIVE exportMapFrom(_, _)
exportMapFrom(map, exports) ==
    IF exports = <<>> THEN map
    ELSE exportMapFrom(MapSet(map, exportKey(Head(exports)), Head(exports)), Tail(exports))

\* a map that holds the first export only
exportMap_FirstOnly(exports) ==
    IF exports = <<>> THEN <<>>
    ELSE <<[key |-> exportKey(Head(exports)), sig |-> Head(exports)]>>

exportMap(exports) == exportMapFrom(<<>>, exports)

MapHas(map, key) == \E i \in 1..Len(map) : map[i].key = key

MapGet(map, key) == map[CHOOSE i \in 1..Len(map) : map[i].key = key].sig

\* a comparison that looks at the kind only
sigChanged_KindOnly(old, next) == old.kind # next.kind

sigChanged(old, next) ==
    \/ old.kind # next.kind
    \/ old.kind = "fn" /\ <<old.hasParams, old.paramCount>> # <<next.hasParams, next.paramCount>>

formatSig(sig) ==
    IF sig.kind = "fn"
    THEN "fn:" \o sig.name \o ":" \o ToString(IF sig.hasParams THEN sig.paramCount ELSE 0)
    ELSE sig.kind \o ":" \o sig.name

\* the entries of map whose key is not in other, formatted
RECURSIVE NotIn(_, _)
NotIn(map, other) ==
    IF map = <<>> THEN <<>>
    ELSE (IF MapHas(other, Head(map).key) THEN <<>> ELSE <<formatSig(Head(map).sig)>>)
         \o NotIn(Tail(map), other)

RECURSIVE ChangedIn(_, _)
ChangedIn(newMap, oldMap) ==
    IF newMap = <<>> THEN <<>>
    ELSE LET key == Head(newMap).key
             newSig == Head(newMap).sig
         IN (IF MapHas(oldMap, key) /\ sigChanged(MapGet(oldMap, key), newSig)
             THEN <<formatSig(MapGet(oldMap, key)) \o " -> " \o formatSig(newSig)>>
             ELSE <<>>)
            \o ChangedIn(Tail(newMap), oldMap)

Classification(class, reason, added, removed, changed) ==
    [mutationClass |-> class, reason |-> reason, added |-> added,
     removed |-> removed, changed |-> changed]

\* the parts of the reason, one for each list that is not empty
ReasonParts(added, removed, changed) ==
    (IF added = <<>> THEN <<>>
     ELSE <<"+" \o ToString(Len(added)) \o " added: " \o JoinWith(added, ", ")>>)
    \o (IF removed = <<>> THEN <<>>
        ELSE <<"-" \o ToString(Len(removed)) \o " removed: " \o JoinWith(removed, ", ")>>)
    \o (IF changed = <<>> THEN <<>>
        ELSE <<"~" \o ToString(Len(changed)) \o " changed: " \o JoinWith(changed, ", ")>>)

\* a classifier that compares the two export lists position by position
classifyMutation_ByPosition(oldContent, newContent, abs) ==
    LET oldExports == extractExports(oldContent, abs)
        newExports == extractExports(newContent, abs)
    IN  IF oldExports = <<>> /\ newExports = <<>>
        THEN Classification("UNKNOWN",
                 "Could not parse exports - non-TypeScript file or parse error",
                 <<>>, <<>>, <<>>)
        ELSE IF oldExports = newExports
        THEN Classification("AST_REFACTOR",
                 "Exported API surface unchanged - internal refactor only",
                 <<>>, <<>>, <<>>)
        ELSE Classification("INTENT_EVOLUTION", "API surface changed", <<>>, <<>>, <<>>)

classifyMutation(oldContent, newContent, abs) ==
    LET oldExports == extractExports(oldContent, abs)
        newExports == extractExports(newContent, abs)
        oldMap == exportMap(oldExports)
        newMap == exportMap(newExports)
        added == NotIn(newMap, oldMap)
        removed == NotIn(oldMap, newMap)
        changed == ChangedIn(newMap, oldMap)
    IN  IF oldExports = <<>> /\ newExports = <<>>
        THEN Classification("UNKNOWN",
                 "Could not parse exports - non-TypeScript file or parse error",
                 <<>>, <<>>, <<>>)
        ELSE IF added = <<>> /\ removed = <<>> /\ changed = <<>>
        THEN Classification("AST_REFACTOR",
                 "Exported API surface unchanged - internal refactor only",
                 <<>>, <<>>, <<>>)
        ELSE Classification("INTENT_EVOLUTION",
                 "API surface changed: " \o JoinWith(ReasonParts(added, removed, changed), "; "),
                 added, removed, changed)

---------------------------------------------------------------------------
(* Intent store: active_intents.yaml and .intentignore *)

Statuses == {"PENDING", "IN_PROGRESS", "BLOCKED", "COMPLETE"}

\* the updated_at of an intent nobody has updated, and the time of an update
CreatedAt == "2026-01-01T00:00:00.000Z"

Now == "2026-11-01T12:00:00.000Z"

Intent(id, name, status, scope, blockedReason) ==
    [id |-> id, name |-> name, status |-> status, owned_scope |-> scope,
     blocked_reason |-> blockedReason, updated_at |-> CreatedAt]

\* a loader that logs a parse error and returns no intents
loadIntents_Swallow ==
    CASE intentsFile.state = "absent"    -> [threw |-> FALSE, intents |-> <<>>]
      [] intentsFile.state = "malformed" -> [threw |-> FALSE, intents |-> <<>>]
      [] OTHER                           -> [threw |-> FALSE, intents |-> intentsFile.intents]

\* a loader that keeps the intents it read first and never reads again
loadIntents_Cached ==
    [threw |-> FALSE,
     intents |-> << Intent("INT-001", "API & routes", "IN_PROGRESS", <<"src/api/**">>, Undefined),
                    Intent("INT-002", "routes", "PENDING", <<"src/*/routes.ts">>, Undefined) >>]

\* loadIntents: the file is absent (no intents), unparsable (throws) or parsed
loadIntents ==
    CASE intentsFile.state = "absent"    -> [threw |-> FALSE, intents |-> <<>>]
      [] intentsFile.state = "malformed" -> [threw |-> TRUE, intents |-> <<>>]
      [] OTHER                           -> [threw |-> FALSE, intents |-> intentsFile.intents]

\* intents.find((i) => i.id === intentId): the first intent with that id
findIntent(intentId) ==
    LET intents == loadIntents.intents
        hits == { i \in 1..Len(intents) : intents[i].id = intentId }
    IN  IF hits = {}
        THEN [found |-> FALSE, intent |-> Intent("", "", "PENDING", <<>>, Undefined)]
        ELSE [found |-> TRUE,
              intent |-> intents[CHOOSE i \in hits : \A j \in hits : i <= j]]

\* the header updateIntentStatus writes in front of the dumped intents
StoreHeader == "# .orchestration/active_intents.yaml"

\* an updateIntentStatus that reports an id it does not find by its return
\* value and throws nothing
updateIntentStatus_ReturnsFalse(intentId, status, writeOk) ==
    LET intents == loadIntents.intents
        hits == { i \in 1..Len(intents) : intents[i].id = intentId }
        first == CHOOSE i \in hits : \A j \in hits : i <= j
    IN  IF loadIntents.threw THEN [threw |-> TRUE, error |-> "malformed", file |-> intentsFile]
        ELSE IF hits = {} THEN [threw |-> FALSE, error |-> "", file |-> intentsFile]
        ELSE IF ~writeOk THEN [threw |-> TRUE, error |-> "io", file |-> intentsFile]
        ELSE [threw |-> FALSE, error |-> "",
              file |-> [state |-> "ok", header |-> StoreHeader,
                        intents |-> [intents EXCEPT ![first] =
                                        [@ EXCEPT !.status = status, !.updated_at = Now]]]]

\* an updateIntentStatus that writes back only the intent it updated
updateIntentStatus_OnlyUpdated(intentId, status, writeOk) ==
    LET intents == loadIntents.intents
        hits == { i \in 1..Len(intents) : intents[i].id = intentId }
        first == CHOOSE i \in hits : \A j \in hits : i <= j
    IN  IF loadIntents.threw THEN [threw |-> TRUE, error |-> "malformed", file |-> intentsFile]
        ELSE IF hits = {} THEN [threw |-> TRUE, error |-> "not found", file |-> intentsFile]
        ELSE IF ~writeOk THEN [threw |-> TRUE, error |-> "io", file |-> intentsFile]
        ELSE [threw |-> FALSE, error |-> "",
              file |-> [state |-> "ok", header |-> StoreHeader,
                        intents |-> << [intents[first] EXCEPT !.status = status,
                                                              !.updated_at = Now] >>]]

\* an updateIntentStatus that stamps the intent and leaves its status alone
updateIntentStatus_StampOnly(intentId, status, writeOk) ==
    LET intents == loadIntents.intents
        hits == { i \in 1..Len(intents) : intents[i].id = intentId }
        first == CHOOSE i \in hits : \A j \in hits : i <= j
    IN  IF loadIntents.threw THEN [threw |-> TRUE, error |-> "malformed", file |-> intentsFile]
        ELSE IF hits = {} THEN [threw |-> TRUE, error |-> "not found", file |-> intentsFile]
        ELSE IF ~writeOk THEN [threw |-> TRUE, error |-> "io", file |-> intentsFile]
        ELSE [threw |-> FALSE, error |-> "",
              file |-> [state |-> "ok", header |-> StoreHeader,
                        intents |-> [intents EXCEPT ![first] =
                                        [@ EXCEPT !.updated_at = Now]]]]

\* updateIntentStatus: the outcome and the intent file after the call. The
\* first intent with the id gets the status and the time; the file is written
\* anew, the fixed header and yaml.dump of the intents (yaml.load of which is
\* these intents again). writeOk = FALSE is an I/O error of the read or write.
updateIntentStatus(intentId, status, writeOk) ==
    LET intents == loadIntents.intents
        hits == { i \in 1..Len(intents) : intents[i].id = intentId }
        first == CHOOSE i \in hits : \A j \in hits : i <= j
    IN  IF loadIntents.threw THEN [threw |-> TRUE, error |-> "malformed", file |-> intentsFile]
        ELSE IF hits = {} THEN [threw |-> TRUE, error |-> "not found", file |-> intentsFile]
        ELSE IF ~writeOk THEN [threw |-> TRUE, error |-> "io", file |-> intentsFile]
        ELSE [threw |-> FALSE, error |-> "",
              file |-> [state |-> "ok", header |-> StoreHeader,
                        intents |-> [intents EXCEPT ![first] =
                                        [@ EXCEPT !.status = status, !.updated_at = Now]]]]

isFileInScope(intent, abs) ==
    \E i \in 1..Len(intent.owned_scope) :
        minimatch(toRelativePath(abs), intent.owned_scope[i])

\* a line of .intentignore that starts with "#"
StartsWithHash(line) == line \in {"# shared documentation"}

\* loadIgnorePatterns: the lines that are neither blank nor comments
RECURSIVE KeepPatterns(_)
KeepPatterns(lines) ==
    IF lines = <<>> THEN <<>>
    ELSE (IF Head(lines) # "" /\ ~StartsWithHash(Head(lines)) THEN <<Head(lines)>> ELSE <<>>)
         \o KeepPatterns(Tail(lines))

loadIgnorePatterns ==
    CASE ignoreFile.state = "absent"     -> [threw |-> FALSE, patterns |-> <<>>]
      [] ignoreFile.state = "unreadable" -> [threw |-> TRUE, patterns |-> <<>>]
      [] OTHER -> [threw |-> FALSE, patterns |-> KeepPatterns(ignoreFile.lines)]

isFileIgnored(abs) ==
    LET patterns == loadIgnorePatterns.patterns
    IN  \E i \in 1..Len(patterns) : minimatch(toRelativePath(abs), patterns[i])

---------------------------------------------------------------------------
(* Tool context, block signals and hook results *)

ParamNames == {"path", "file_path", "target_file", "destination", "read_hash",
               "intent_id", "content"}

NoParams == [n \in ParamNames |-> Undefined]

\* dispatchWithHooks: const ctx = { toolName, params, workspacePath, intentId }
NewContext(toolName, params, sessionIntentId) ==
    [toolName |-> toolName, params |-> params, workspacePath |-> WS,
     intentId |-> sessionIntentId, mutationClass |-> Undefined,
     oldContent |-> Undefined, injectedContext |-> Undefined]

NoContext == NewContext("", NoParams, Undefined)

\* what a hook hands back: a context, a BlockSignal, or a thrown error
Pass(ctx) == [kind |-> "ctx", ctx |-> ctx, code |-> "", reason |-> <<>>]

BlockSignal(reason, code) == [kind |-> "block", ctx |-> NoContext, code |-> code, reason |-> reason]

Throws(what) == [kind |-> "throw", ctx |-> NoContext, code |-> "", reason |-> <<what>>]

RECURSIVE FirstPath(_, _)
FirstPath(params, names) ==
    IF names = <<>> THEN Undefined
    ELSE LET val == params[Head(names)]
         IN  IF IsString(val) /\ val.s # "" THEN val ELSE FirstPath(params, Tail(names))

\* the first of path, file_path, target_file, destination that is a non-empty
\* string; Undefined stands for null
extractTargetPath(ctx) == FirstPath(ctx.params, PATH_PARAMS)

---------------------------------------------------------------------------
(* Pre-hooks *)

\* escapeXml over the texts of the model
escapeXml(str) ==
    CASE str = "API & routes" -> "API &amp; routes"
      [] OTHER -> str

RECURSIVE XmlList(_, _)
XmlList(items, tag) ==
    IF items = <<>> THEN ""
    ELSE "<" \o tag \o ">" \o escapeXml(Head(items)) \o "</" \o tag \o ">"
         \o XmlList(Tail(items), tag)

buildIntentContextXml(intent) ==
    "<intent_context><id>" \o escapeXml(intent.id) \o "</id><name>"
        \o escapeXml(intent.name) \o "</name><status>" \o escapeXml(intent.status)
        \o "</status><owned_scope>" \o XmlList(intent.owned_scope, "path")
        \o "</owned_scope></intent_context>"

RECURSIVE IntentIds(_)
IntentIds(intents) ==
    IF intents = <<>> THEN <<>> ELSE <<Head(intents).id>> \o IntentIds(Tail(intents))

\* a context injector without the check for a BLOCKED intent
contextInjector_InjectsBlocked(ctx) ==
    LET intentId == ctx.params["intent_id"]
        found == findIntent(intentId.s)
        intent == found.intent
    IN  IF ctx.toolName # "select_active_intent" THEN Pass(ctx)
        ELSE IF ~Truthy(intentId) \/ ~IsString(intentId)
        THEN BlockSignal(<<"select_active_intent requires an intent_id string parameter.">>,
                         "GENERIC_BLOCK")
        ELSE IF loadIntents.threw THEN Throws("active_intents.yaml is malformed")
        ELSE IF ~found.found
        THEN BlockSignal(<<"UNKNOWN_INTENT", intentId.s>> \o IntentIds(loadIntents.intents),
                         "UNKNOWN_INTENT")
        ELSE IF intent.status = "COMPLETE"
        THEN BlockSignal(<<"COMPLETE_INTENT", intentId.s>>, "COMPLETE_INTENT")
        ELSE Pass([ctx EXCEPT !.intentId = intentId,
                              !.injectedContext = Str(buildIntentContextXml(intent))])

contextInjector(ctx) ==
    LET intentId == ctx.params["intent_id"]
        found == findIntent(intentId.s)
        intent == found.intent
    IN  IF ctx.toolName # "select_active_intent" THEN Pass(ctx)
        ELSE IF ~Truthy(intentId) \/ ~IsString(intentId)
        THEN BlockSignal(<<"select_active_intent requires an intent_id string parameter.">>,
                         "GENERIC_BLOCK")
        ELSE IF loadIntents.threw THEN Throws("active_intents.yaml is malformed")
        ELSE IF ~found.found
        THEN BlockSignal(<<"UNKNOWN_INTENT", intentId.s>> \o IntentIds(loadIntents.intents),
                         "UNKNOWN_INTENT")
        ELSE IF intent.status = "COMPLETE"
        THEN BlockSignal(<<"COMPLETE_INTENT", intentId.s>>, "COMPLETE_INTENT")
        ELSE IF intent.status = "BLOCKED"
        THEN BlockSignal(<<"BLOCKED_INTENT", intentId.s,
                           IF intent.blocked_reason.t = "undefined"
                           THEN "A dependency must be resolved first."
                           ELSE intent.blocked_reason.s>>,
                         "BLOCKED_INTENT")
        ELSE Pass([ctx EXCEPT !.intentId = intentId,
                              !.injectedContext = Str(buildIntentContextXml(intent))])

\* a gatekeeper that asks for an intent only where a file is written
intentGatekeeper_WriteToolsOnly(ctx) ==
    IF ctx.toolName \in SAFE_TOOLS THEN Pass(ctx)
    ELSE IF ctx.toolName \notin WRITE_TOOLS THEN Pass(ctx)
    ELSE IF ~Truthy(ctx.intentId)
    THEN BlockSignal(<<"NO_INTENT_DECLARED", ctx.toolName,
                       "You MUST call select_active_intent(intent_id) as your FIRST action this turn.">>,
                     "NO_INTENT_DECLARED")
    ELSE Pass(ctx)

\* a gatekeeper that asks for an intent for every tool off the allowlist
intentGatekeeper_GateUnknown(ctx) ==
    IF ctx.toolName \in SAFE_TOOLS THEN Pass(ctx)
    ELSE IF ~Truthy(ctx.intentId)
    THEN BlockSignal(<<"NO_INTENT_DECLARED", ctx.toolName,
                       "You MUST call select_active_intent(intent_id) as your FIRST action this turn.">>,
                     "NO_INTENT_DECLARED")
    ELSE Pass(ctx)

intentGatekeeper(ctx) ==
    IF ctx.toolName \in SAFE_TOOLS THEN Pass(ctx)
    ELSE IF ctx.toolName \notin DESTRUCTIVE_TOOLS THEN Pass(ctx)
    ELSE IF ~Truthy(ctx.intentId)
    THEN BlockSignal(<<"NO_INTENT_DECLARED", ctx.toolName,
                       "You MUST call select_active_intent(intent_id) as your FIRST action this turn.">>,
                     "NO_INTENT_DECLARED")
    ELSE Pass(ctx)

\* a scope enforcer that looks only at the tools the lock guard looks at
scopeEnforcer_WriteToolsOnly(ctx) ==
    LET targetPath == extractTargetPath(ctx)
        absolutePath == ResolveAbsolute(targetPath.s)
        found == findIntent(ctx.intentId.s)
    IN  IF ctx.toolName \notin WRITE_TOOLS THEN Pass(ctx)
        ELSE IF ~Truthy(ctx.intentId) THEN Pass(ctx)
        ELSE IF targetPath = Undefined THEN Pass(ctx)
        ELSE IF loadIgnorePatterns.threw THEN Throws(".intentignore cannot be read")
        ELSE IF isFileIgnored(absolutePath) THEN Pass(ctx)
        ELSE IF loadIntents.threw THEN Throws("active_intents.yaml is malformed")
        ELSE IF ~found.found THEN Pass(ctx)
        ELSE IF ~isFileInScope(found.intent, absolutePath)
        THEN BlockSignal(<<"SCOPE_VIOLATION", toRelativePath(absolutePath), ctx.intentId.s>>
                            \o found.intent.owned_scope,
                         "SCOPE_VIOLATION")
        ELSE Pass(ctx)

\* a scope enforcer that does not look at .intentignore
scopeEnforcer_NoIgnore(ctx) ==
    LET targetPath == extractTargetPath(ctx)
        absolutePath == ResolveAbsolute(targetPath.s)
        found == findIntent(ctx.intentId.s)
    IN  IF ctx.toolName \in READ_ONLY_TOOLS THEN Pass(ctx)
        ELSE IF ~Truthy(ctx.intentId) THEN Pass(ctx)
        ELSE IF targetPath = Undefined THEN Pass(ctx)
        ELSE IF loadIntents.threw THEN Throws("active_intents.yaml is malformed")
        ELSE IF ~found.found THEN Pass(ctx)
        ELSE IF ~isFileInScope(found.intent, absolutePath)
        THEN BlockSignal(<<"SCOPE_VIOLATION", toRelativePath(absolutePath), ctx.intentId.s>>
                            \o found.intent.owned_scope,
                         "SCOPE_VIOLATION")
        ELSE Pass(ctx)

scopeEnforcer(ctx) ==
    LET targetPath == extractTargetPath(ctx)
        absolutePath == ResolveAbsolute(targetPath.s)
        found == findIntent(ctx.intentId.s)
    IN  IF ctx.toolName \in READ_ONLY_TOOLS THEN Pass(ctx)
        ELSE IF ~Truthy(ctx.intentId) THEN Pass(ctx)
        ELSE IF targetPath = Undefined THEN Pass(ctx)
        ELSE IF loadIgnorePatterns.threw THEN Throws(".intentignore cannot be read")
        ELSE IF isFileIgnored(absolutePath) THEN Pass(ctx)
        ELSE IF loadIntents.threw THEN Throws("active_intents.yaml is malformed")
        ELSE IF ~found.found THEN Pass(ctx)
        ELSE IF ~isFileInScope(found.intent, absolutePath)
        THEN BlockSignal(<<"SCOPE_VIOLATION", toRelativePath(absolutePath), ctx.intentId.s>>
                            \o found.intent.owned_scope,
                         "SCOPE_VIOLATION")
        ELSE Pass(ctx)

\* a lock guard that compares read_hash with the bare digest, without the
\* raw-sha256: prefix
optimisticLockGuard_BareDigest(ctx) ==
    LET targetPath == extractTargetPath(ctx)
        absolutePath == ResolveAbsolute(targetPath.s)
        file == files[absolutePath]
        currentContent == file.content
        currentHash == Sha256Hex(currentContent)
        enriched == [ctx EXCEPT !.oldContent = Str(currentContent)]
        readHash == ctx.params["read_hash"]
    IN  IF ctx.toolName \notin WRITE_TOOLS THEN Pass(ctx)
        ELSE IF targetPath = Undefined THEN Pass(ctx)
        ELSE IF file.state = "absent" THEN Pass(ctx)
        ELSE IF file.state = "unreadable" THEN Pass(ctx)
        ELSE IF Truthy(readHash) /\ IsString(readHash) /\ readHash.s # currentHash
        THEN BlockSignal(<<"STALE_FILE", toRelativePath(absolutePath), readHash.s, currentHash>>,
                         "STALE_FILE")
        ELSE Pass(enriched)

optimisticLockGuard(ctx) ==
    LET targetPath == extractTargetPath(ctx)
        absolutePath == ResolveAbsolute(targetPath.s)
        file == files[absolutePath]
        currentContent == file.content
        currentHash == "raw-sha256:" \o Sha256Hex(currentContent)
        enriched == [ctx EXCEPT !.oldContent = Str(currentContent)]
        readHash == ctx.params["read_hash"]
    IN  IF ctx.toolName \notin WRITE_TOOLS THEN Pass(ctx)
        ELSE IF targetPath = Undefined THEN Pass(ctx)
        ELSE IF file.state = "absent" THEN Pass(ctx)
        ELSE IF file.state = "unreadable" THEN Pass(ctx)
        ELSE IF Truthy(readHash) /\ IsString(readHash) /\ readHash.s # currentHash
        THEN BlockSignal(<<"STALE_FILE", toRelativePath(absolutePath), readHash.s, currentHash>>,
                         "STALE_FILE")
        ELSE Pass(enriched)

\* the function registered under a pre-hook name
PreHookFn(name, ctx) ==
    CASE name = "ContextInjector"     -> contextInjector(ctx)
      [] name = "IntentGatekeeper"    -> intentGatekeeper(ctx)
      [] name = "ScopeEnforcer"       -> scopeEnforcer(ctx)
      [] name = "OptimisticLockGuard" -> optimisticLockGuard(ctx)

\* a hook that writes its enrichments onto the object it was given and
\* returns that object
InputAfter_InPlace(name, ctx) ==
    IF PreHookFn(name, ctx).kind = "ctx" THEN PreHookFn(name, ctx).ctx ELSE ctx

\* the fields of the object a pre-hook was given, once the hook has returned:
\* none of the four hooks assigns to a field of ctx; the context injector and
\* the lock guard build their result with { ...ctx, ... }
InputAfter(name, ctx) ==
    CASE name = "ContextInjector"     -> ctx
      [] name = "IntentGatekeeper"    -> ctx
      [] name = "ScopeEnforcer"       -> ctx
      [] name = "OptimisticLockGuard" -> ctx

---------------------------------------------------------------------------
(* Post-hooks: what each does to the ledger and to CLAUDE.md *)

File(state, content) == [state |-> state, content |-> content]

\* one line of agent_trace.jsonl (id, timestamp and vcs revision left out)
\* a trace entry that takes the class the context carries and never runs
\* the classifier
TraceEntry_AgentReported(ctx, abs, newContent) ==
    LET hashResult == hashCodeBlock(newContent, abs)
    IN  [mutation_class |-> IF ctx.mutationClass.t = "undefined" THEN "UNKNOWN"
                            ELSE ctx.mutationClass.s,
         classification_reason |-> "Classification skipped - no old content captured",
         relative_path |-> toRelativePath(abs),
         content_hash |-> hashResult.hash,
         hash_method |-> hashResult.method,
         ast_node_count |-> hashResult.nodeCount,
         related |-> IF Truthy(ctx.intentId) THEN <<ctx.intentId.s>> ELSE <<>>]

\* a trace entry whose classifier compares the old content with itself
TraceEntry_OldAgainstOld(ctx, abs, newContent) ==
    LET hashResult == hashCodeBlock(newContent, abs)
        classification == classifyMutation(ctx.oldContent.s, ctx.oldContent.s, abs)
        captured == ctx.oldContent.t # "undefined"
    IN  [mutation_class |-> IF captured THEN classification.mutationClass
                            ELSE IF ctx.mutationClass.t = "undefined" THEN "UNKNOWN"
                            ELSE ctx.mutationClass.s,
         classification_reason |-> IF captured THEN classification.reason
                                   ELSE "Classification skipped - no old content captured",
         relative_path |-> toRelativePath(abs),
         content_hash |-> hashResult.hash,
         hash_method |-> hashResult.method,
         ast_node_count |-> hashResult.nodeCount,
         related |-> IF Truthy(ctx.intentId) THEN <<ctx.intentId.s>> ELSE <<>>]

TraceEntry(ctx, abs, newContent) ==
    LET hashResult == hashCodeBlock(newContent, abs)
        classification == classifyMutation(ctx.oldContent.s, newContent, abs)
        captured == ctx.oldContent.t # "undefined"
    IN  [mutation_class |-> IF captured THEN classification.mutationClass
                            ELSE IF ctx.mutationClass.t = "undefined" THEN "UNKNOWN"
                            ELSE ctx.mutationClass.s,
         classification_reason |-> IF captured THEN classification.reason
                                   ELSE "Classification skipped - no old content captured",
         relative_path |-> toRelativePath(abs),
         content_hash |-> hashResult.hash,
         hash_method |-> hashResult.method,
         ast_node_count |-> hashResult.nodeCount,
         related |-> IF Truthy(ctx.intentId) THEN <<ctx.intentId.s>> ELSE <<>>]

\* a trace logger that writes the ledger anew with writeFileSync: the file
\* holds the entry of the last call only
traceLogger_Overwrites(ctx, appendOk) ==
    LET targetPath == extractTargetPath(ctx)
        absolutePath == ResolveAbsolute(targetPath.s)
        file == files[absolutePath]
        newContent == IF file.state = "ok" THEN file.content ELSE ""
    IN  IF ctx.toolName \notin TRACED_TOOLS THEN ledger
        ELSE IF targetPath = Undefined THEN ledger
        ELSE IF ~appendOk THEN ledger
        ELSE <<TraceEntry(ctx, absolutePath, newContent)>>

\* a trace logger that writes nothing when the target is gone after the tool
traceLogger_SkipsDeleted(ctx, appendOk) ==
    LET targetPath == extractTargetPath(ctx)
        absolutePath == ResolveAbsolute(targetPath.s)
        file == files[absolutePath]
    IN  IF ctx.toolName \notin TRACED_TOOLS THEN ledger
        ELSE IF targetPath = Undefined THEN ledger
        ELSE IF ~appendOk \/ file.state # "ok" THEN ledger
        ELSE Append(ledger, TraceEntry(ctx, absolutePath, file.content))

\* a trace logger that triggers on the lock guard's tool set
traceLogger_WriteToolsOnly(ctx, appendOk) ==
    LET targetPath == extractTargetPath(ctx)
        absolutePath == ResolveAbsolute(targetPath.s)
        file == files[absolutePath]
        newContent == IF file.state = "ok" THEN file.content ELSE ""
    IN  IF ctx.toolName \notin WRITE_TOOLS THEN ledger
        ELSE IF targetPath = Undefined THEN ledger
        ELSE IF ~appendOk THEN ledger
        ELSE Append(ledger, TraceEntry(ctx, absolutePath, newContent))

\* traceLogger: the ledger after the hook ran on ctx; appendOk = FALSE is an
\* I/O error of the append, which the hook swallows
traceLogger(ctx, appendOk) ==
    LET targetPath == extractTargetPath(ctx)
        absolutePath == ResolveAbsolute(targetPath.s)
        file == files[absolutePath]
        newContent == IF file.state = "ok" THEN file.content ELSE ""
    IN  IF ctx.toolName \notin TRACED_TOOLS THEN ledger
        ELSE IF targetPath = Undefined THEN ledger
        ELSE IF ~appendOk THEN ledger
        ELSE Append(ledger, TraceEntry(ctx, absolutePath, newContent))

\* whether traceLogger reaches its append on ctx
TraceApplies(ctx) == ctx.toolName \in TRACED_TOOLS /\ extractTargetPath(ctx) # Undefined

ClaudeHeader == "# CLAUDE.md - Shared Agent Brain"

buildLesson(ctx, relativePath) ==
    "INTENT_EVOLUTION - " \o ctx.intentId.s \o " File: " \o relativePath
        \o " Tool: " \o ctx.toolName

\* how the writes of the lesson recorder go: both succeed, the first of them
\* fails, or the header is written and the append fails
LessonIo == {"ok", "no write", "no append"}

\* an appendToCLAUDEMd that writes the header before every section
appendToCLAUDEMd_AlwaysSeeds(lesson, io) ==
    LET seeded == [exists |-> TRUE, header |-> ClaudeHeader, sections |-> claudeMd.sections]
    IN  CASE io = "no write"  -> claudeMd
          [] io = "no append" -> seeded
          [] OTHER            -> [seeded EXCEPT !.sections = Append(@, lesson)]

\* appendToCLAUDEMd: seed the header when the file is absent, then append
appendToCLAUDEMd(lesson, io) ==
    LET seeded == IF claudeMd.exists THEN claudeMd
                  ELSE [exists |-> TRUE, header |-> ClaudeHeader, sections |-> <<>>]
    IN  CASE io = "no write"  -> claudeMd
          [] io = "no append" -> seeded
          [] OTHER            -> [seeded EXCEPT !.sections = Append(@, lesson)]

\* whether lessonRecorder reaches appendToCLAUDEMd on ctx
LessonApplies(ctx) ==
    /\ ctx.mutationClass = Str("INTENT_EVOLUTION")
    /\ Truthy(ctx.intentId)
    /\ extractTargetPath(ctx) # Undefined

\* a lesson recorder that records whatever the mutation class is
lessonRecorder_AnyClass(ctx, io) ==
    IF Truthy(ctx.intentId) /\ extractTargetPath(ctx) # Undefined
    THEN appendToCLAUDEMd(buildLesson(ctx,
             toRelativePath(ResolveAbsolute(extractTargetPath(ctx).s))), io)
    ELSE claudeMd

\* lessonRecorder: CLAUDE.md after the hook ran on ctx; an I/O error of
\* appendToCLAUDEMd is swallowed by the hook
lessonRecorder(ctx, io) ==
    IF LessonApplies(ctx)
    THEN appendToCLAUDEMd(buildLesson(ctx,
             toRelativePath(ResolveAbsolute(extractTargetPath(ctx).s))), io)
    ELSE claudeMd

\* post/IntentMapUpdater.ts is not among the sources: a best-effort view whose
\* errors the engine swallows; it may raise
IntentMapUpdaterMayThrow == BOOLEAN

---------------------------------------------------------------------------
(* The host's tool dispatcher (originalDispatch) *)

\* the files after the tool ran: a write tool stores params.content at its
\* target, delete_file removes the target, every other tool leaves them alone
HostToolEffect(toolName, params) ==
    LET targetPath == FirstPath(params, PATH_PARAMS)
        abs == ResolveAbsolute(targetPath.s)
    IN  IF targetPath = Undefined THEN files
        ELSE IF toolName = "delete_file" THEN [files EXCEPT ![abs] = File("absent", "")]
        ELSE IF toolName \in WRITE_TOOLS /\ IsString(params["content"])
        THEN [files EXCEPT ![abs] = File("ok", params["content"].s)]
        ELSE files

HostToolResult(toolName) == "result of " \o toolName

\* the error the host tool raises when it fails
HostToolError(toolName) == "error of " \o toolName

---------------------------------------------------------------------------
(* The environment the exploration starts from *)

IgnoreLines == <<"# shared documentation", "", "*.md">>

\* a header written by hand
HandHeader == "# intents of this workspace - edit with care"

IntentsWith(status) ==
    [state |-> "ok", header |-> HandHeader,
     intents |-> << Intent("INT-001", "API & routes", status, <<"src/api/**">>,
                           IF status = "BLOCKED" THEN Str("waiting for INT-002") ELSE Undefined),
                    Intent("INT-002", "routes", "PENDING", <<"src/*/routes.ts">>, Undefined) >>]

NoIntentsFile == [state |-> "absent", header |-> "", intents |-> <<>>]

MalformedIntentsFile == [state |-> "malformed", header |-> HandHeader, intents |-> <<>>]

\* an intent file in which the id INT-001 occurs twice
TwiceIntentsFile ==
    [state |-> "ok", header |-> HandHeader,
     intents |-> << Intent("INT-001", "API & routes", "PENDING", <<"src/api/**">>, Undefined),
                    Intent("INT-002", "routes", "PENDING", <<"src/*/routes.ts">>, Undefined),
                    Intent("INT-001", "API again", "COMPLETE", <<"src/**">>, Undefined) >>]

\* an intent file whose only intent owns the UI sources and nothing else
UiIntentsFile ==
    [state |-> "ok", header |-> HandHeader,
     intents |-> << Intent("INT-001", "UI", "IN_PROGRESS", <<"src/ui/**">>, Undefined) >>]

IgnoreOk == [state |-> "ok", lines |-> IgnoreLines]

\* the (intent file, ignore file) pairs a run may start from
Environments ==
    { <<IntentsWith(st), IgnoreOk>> : st \in Statuses }
        \cup { <<NoIntentsFile, [state |-> "absent", lines |-> <<>>]>>,
               <<MalformedIntentsFile, IgnoreOk>>,
               <<IntentsWith("IN_PROGRESS"), [state |-> "unreadable", lines |-> <<>>]>>,
               <<UiIntentsFile, IgnoreOk>> }

InitialFiles ==
    [abs \in AbsPaths |->
        CASE abs = "/ws/src/api/routes.ts" -> File("ok", SrcF1)
          [] abs = "/ws/src/ui/button.tsx" -> File("unreadable", "")
          [] abs = "/ws/README.md"         -> File("ok", Notes)
          [] OTHER                         -> File("absent", "")]

---------------------------------------------------------------------------
(* The requests the host dispatches *)

Sessions == {1, 2}

ActiveSessions == IF workload \in {"concurrent", "appends"} THEN Sessions ELSE {1}

Request(tool, params, intent) == [tool |-> tool, params |-> params, intent |-> intent]

WriteParams(target, content, readHash) ==
    [NoParams EXCEPT !["path"] = Str(target), !["content"] = Str(content),
                     !["read_hash"] = readHash]

FreshHash == Str("raw-sha256:" \o Sha256Hex(SrcF1))

ReadHashes == { Undefined, Str(""), NonString("42"), FreshHash, Str("raw-sha256:deadbeef") }

\* params that name a target
TargetParams ==
    { WriteParams("src/api/routes.ts", SrcF2, rh) : rh \in ReadHashes }
        \cup { WriteParams("src/ui/button.tsx", SrcF2, Undefined),
               WriteParams("README.md", "", Undefined),
               WriteParams("/etc/hosts.js", SrcF2, Str("raw-sha256:deadbeef")),
               [NoParams EXCEPT !["path"] = Str(""), !["file_path"] = Str("src/api/routes.ts"),
                                !["target_file"] = Str("src/ui/button.tsx"),
                                !["content"] = Str(SrcF1Helper)],
               [NoParams EXCEPT !["path"] = NonString("42"),
                                !["destination"] = Str("src/ui/button.tsx"),
                                !["content"] = Str(SrcBroken)] }

HandshakeParams ==
    { [NoParams EXCEPT !["intent_id"] = v] :
        v \in { Undefined, Str(""), NonString("7"), Str("INT-001"), Str("INT-002"),
                Str("INT-404") } }

\* the first dispatch of a single-session run ranges over these
WideRequests ==
    { Request(t, p, i) : t \in DESTRUCTIVE_TOOLS,
                         p \in TargetParams \cup HandshakeParams,
                         i \in {Undefined, Str("")} }
        \cup { Request(t, p, i) : t \in DESTRUCTIVE_TOOLS, p \in TargetParams \cup {NoParams},
                                  i \in {Str("INT-001"), Str("INT-404")} }
        \cup { Request("select_active_intent", p, i) :
                  p \in HandshakeParams \cup {WriteParams("src/api/routes.ts", SrcF2, Undefined)},
                  i \in {Undefined, Str("INT-001")} }
        \cup { Request(t, p, i) : t \in (SAFE_TOOLS \ {"select_active_intent"}) \cup {UnknownTool},
                                  p \in {NoParams, WriteParams("src/ui/button.tsx", SrcF2, Undefined)},
                                  i \in {Undefined, Str("INT-001")} }

\* later dispatches, and every dispatch of a concurrent run, range over these
FollowUpRequests ==
    { Request("write_to_file", WriteParams("src/api/routes.ts", c, rh), Str("INT-001")) :
          c \in {SrcF2, SrcF1Spaced}, rh \in {Undefined, FreshHash} }
        \cup { Request("delete_file", WriteParams("src/api/routes.ts", "", Undefined), Str("INT-001")),
               Request("apply_diff", [NoParams EXCEPT !["content"] = Str(SrcF2)], Str("INT-001")),
               Request("write_to_file", WriteParams("src/api/routes.ts", SrcF2, Undefined), Undefined),
               Request("select_active_intent", [NoParams EXCEPT !["intent_id"] = Str("INT-001")],
                       Undefined) }

\* the dispatches of the runs that look at the ledger alone: writes and a
\* deletion that pass the pre-hooks, and a write that is blocked
AppendRequests ==
    { Request("write_to_file", WriteParams("src/api/routes.ts", c, Undefined), Str("INT-001")) :
          c \in {SrcF2, SrcF1Spaced} }
        \cup { Request("delete_file", WriteParams("src/api/routes.ts", "", Undefined), Str("INT-001")),
               Request("write_to_file", WriteParams("src/api/routes.ts", SrcF2, Undefined), Undefined) }

Requests ==
    IF workload = "single" /\ dispatched = 0 THEN WideRequests
    ELSE IF workload = "appends" THEN AppendRequests
    ELSE FollowUpRequests

---------------------------------------------------------------------------
(* One activation of dispatchWithHooks *)

NoResult == [kind |-> "none", blocked |-> FALSE, type |-> "", error |-> <<>>,
             code |-> "", content |-> "", blockReason |-> <<>>]

\* a block result that carries the error payload and no blockReason
BlockedResult_NoBlockReason(reason, code) ==
    [kind |-> "blocked", blocked |-> TRUE, type |-> "error", error |-> reason,
     code |-> code, content |-> "", blockReason |-> <<>>]

\* { content: { type: "error", error, code }, blocked: true, blockReason }
BlockedResult(reason, code) ==
    [kind |-> "blocked", blocked |-> TRUE, type |-> "error", error |-> reason,
     code |-> code, content |-> "", blockReason |-> reason]

\* { content: { type: "tool_result", content: xml }, blocked: false }
InjectedResult(xml) ==
    [kind |-> "injected", blocked |-> FALSE, type |-> "tool_result", error |-> <<>>,
     code |-> "", content |-> xml, blockReason |-> <<>>]

\* { content: toolResult, blocked: false }
ToolResult(toolResult) ==
    [kind |-> "tool", blocked |-> FALSE, type |-> "", error |-> <<>>,
     code |-> "", content |-> toolResult, blockReason |-> <<>>]

\* the activation ended by raising the host tool's error
RaisedResult(err) == [NoResult EXCEPT !.kind = "raised", !.error = <<err>>]

IdleCall ==
    [pc |-> "idle", hook |-> 0, request |-> Request("", NoParams, Undefined),
     ctx |-> NoContext, preTrail |-> <<>>, postTrail |-> <<>>, toolCalls |-> 0,
     toolResult |-> "", wrote |-> FALSE, appendFailed |-> FALSE, lessons |-> 0,
     pending |-> NoResult, result |-> NoResult]

\* the dispatch that returned last: its arguments, the outcome of the last
\* pre-hook that ran, the context it ended with, and its result
NoLast ==
    [done |-> FALSE, request |-> Request("", NoParams, Undefined),
     verdict |-> Pass(NoContext), ctx |-> NoContext, result |-> NoResult]

NoAudit ==
    [writes |-> 0, traced |-> 0, registrations |-> 0, edits |-> 0, editedAt |-> 0,
     last |-> NoLast]

NoHash == [hash |-> "", method |-> "", nodeCount |-> 0]

\* no call of the hasher or the classifier is being looked at
NoProbe ==
    [oldContent |-> "", newContent |-> "", filePath |-> "",
     classified |-> FALSE, classification |-> Classification("", "", <<>>, <<>>, <<>>),
     hashed |-> FALSE, oldHash |-> NoHash, newHash |-> NoHash]

NoUpdate ==
    [called |-> FALSE, id |-> "", status |-> "", writeOk |-> TRUE, threw |-> FALSE,
     error |-> "", before |-> NoIntentsFile]

InitWith(w, envs) ==
    /\ workload = w
    /\ registered = FALSE
    /\ preHooks = <<>>
    /\ postHooks = <<>>
    /\ \E env \in envs : intentsFile = env[1] /\ ignoreFile = env[2]
    /\ files = InitialFiles
    /\ ledger = <<>>
    /\ claudeMd = [exists |-> FALSE, header |-> "", sections |-> <<>>]
    /\ call = [s \in Sessions |-> IdleCall]
    /\ dispatched = 0
    /\ audit = NoAudit

Init == InitWith("single", Environments) /\ probe = NoProbe /\ lastUpdate = NoUpdate

InitConc ==
    /\ InitWith("concurrent", { <<IntentsWith("IN_PROGRESS"), IgnoreOk>> })
    /\ probe = NoProbe
    /\ lastUpdate = NoUpdate

\* a registration that puts the lock guard in front of the gatekeeper
registerAllHooks_LockGuardFirst ==
    /\ audit.registrations < MaxRegistrations
    /\ audit' = [audit EXCEPT !.registrations = @ + 1]
    /\ registered' = TRUE
    /\ preHooks' = IF registered THEN preHooks
                   ELSE preHooks \o <<"ContextInjector", "OptimisticLockGuard",
                                      "IntentGatekeeper", "ScopeEnforcer">>
    /\ postHooks' = IF registered THEN postHooks
                    ELSE postHooks \o <<"TraceLogger", "IntentMapUpdater", "LessonRecorder">>
    /\ UNCHANGED <<probe, lastUpdate, workload, intentsFile, ignoreFile, files, ledger, claudeMd, call,
                   dispatched>>

\* a registration without the _registered guard: every call registers again
registerAllHooks_Unguarded ==
    /\ audit.registrations < MaxRegistrations
    /\ audit' = [audit EXCEPT !.registrations = @ + 1]
    /\ registered' = TRUE
    /\ preHooks' = preHooks \o <<"ContextInjector", "IntentGatekeeper",
                                  "ScopeEnforcer", "OptimisticLockGuard">>
    /\ postHooks' = postHooks \o <<"TraceLogger", "IntentMapUpdater", "LessonRecorder">>
    /\ UNCHANGED <<probe, lastUpdate, workload, intentsFile, ignoreFile, files, ledger, claudeMd, call,
                   dispatched>>

\* registerAllHooks(workspacePath): registers the hooks on the first call of
\* the process and returns at once on every later call
registerAllHooks ==
    /\ audit.registrations < MaxRegistrations
    /\ audit' = [audit EXCEPT !.registrations = @ + 1]
    /\ registered' = TRUE
    /\ preHooks' = IF registered THEN preHooks
                   ELSE preHooks \o <<"ContextInjector", "IntentGatekeeper",
                                      "ScopeEnforcer", "OptimisticLockGuard">>
    /\ postHooks' = IF registered THEN postHooks
                    ELSE postHooks \o <<"TraceLogger", "IntentMapUpdater", "LessonRecorder">>
    /\ UNCHANGED <<probe, lastUpdate, workload, intentsFile, ignoreFile, files, ledger, claudeMd, call,
                   dispatched>>

\* a dispatch without the handshake short-circuit
AfterPreHooks_NoShortCircuit(c, ctx) ==
    [c EXCEPT !.pc = "tool", !.hook = 1, !.ctx = ctx]

\* where dispatchWithHooks goes once runPreHooks returned the context ctx
AfterPreHooks(c, ctx) ==
    IF Truthy(ctx.injectedContext)
    THEN [c EXCEPT !.pc = "post", !.hook = 1, !.ctx = ctx,
                   !.pending = InjectedResult(ctx.injectedContext.s)]
    ELSE [c EXCEPT !.pc = "tool", !.hook = 1, !.ctx = ctx]

\* where it goes once runPostHooks returned
AfterPostHooks(c) == [c EXCEPT !.pc = "done", !.result = c.pending]

\* a dispatcher that remembers the intent of the session: a call without
\* sessionIntentId is given the intent the last dispatch ended with
Dispatch_RemembersIntent(s, req) ==
    /\ registered
    /\ dispatched < MaxDispatches
    /\ call[s].pc = "idle"
    /\ LET ctx == NewContext(req.tool, req.params,
                             IF req.intent = Undefined /\ audit.last.done
                             THEN audit.last.ctx.intentId ELSE req.intent)
           c == [IdleCall EXCEPT !.pc = "pre", !.hook = 1, !.request = req, !.ctx = ctx]
       IN  call' = [call EXCEPT ![s] = IF preHooks = <<>> THEN AfterPreHooks(c, ctx) ELSE c]
    /\ dispatched' = dispatched + 1
    /\ UNCHANGED <<probe, lastUpdate, workload, registered, preHooks, postHooks, intentsFile, ignoreFile,
                   files, ledger, claudeMd, audit>>

\* dispatchWithHooks is called: the context is built and runPreHooks starts.
\* The host registers the hooks at activation, before it dispatches.
Dispatch(s, req) ==
    /\ registered
    /\ dispatched < MaxDispatches
    /\ call[s].pc = "idle"
    /\ LET ctx == NewContext(req.tool, req.params, req.intent)
           c == [IdleCall EXCEPT !.pc = "pre", !.hook = 1, !.request = req, !.ctx = ctx]
       IN  call' = [call EXCEPT ![s] = IF preHooks = <<>> THEN AfterPreHooks(c, ctx) ELSE c]
    /\ dispatched' = dispatched + 1
    /\ UNCHANGED <<probe, lastUpdate, workload, registered, preHooks, postHooks, intentsFile, ignoreFile,
                   files, ledger, claudeMd, audit>>

\* a loop that logs a block and goes on to the next hook
PreHookOutcome_IgnoreBlock(c, name, r) ==
    LET trail == Append(c.preTrail, [hook |-> name, given |-> c.ctx, out |-> r,
                                     after |-> InputAfter(name, c.ctx)])
        c1 == [c EXCEPT !.preTrail = trail]
        next == IF r.kind = "block" THEN c.ctx ELSE r.ctx
    IN  IF r.kind = "throw"
        THEN [c1 EXCEPT !.pc = "done",
                        !.result = BlockedResult(
                            <<"Hook \"" \o name \o "\" encountered an internal error.">>,
                            "GENERIC_BLOCK")]
        ELSE IF c.hook = Len(preHooks) THEN AfterPreHooks(c1, next)
        ELSE [c1 EXCEPT !.hook = c.hook + 1, !.ctx = next]

\* a loop without the try/catch: a pre-hook that raises ends the dispatch
PreHookOutcome_Rethrow(c, name, r) ==
    LET trail == Append(c.preTrail, [hook |-> name, given |-> c.ctx, out |-> r,
                                     after |-> InputAfter(name, c.ctx)])
        c1 == [c EXCEPT !.preTrail = trail]
    IN  CASE r.kind = "block" ->
                [c1 EXCEPT !.pc = "done", !.result = BlockedResult(r.reason, r.code)]
          [] r.kind = "throw" ->
                [c1 EXCEPT !.pc = "done", !.result = RaisedResult(r.reason[1])]
          [] OTHER ->
                IF c.hook = Len(preHooks) THEN AfterPreHooks(c1, r.ctx)
                ELSE [c1 EXCEPT !.hook = c.hook + 1, !.ctx = r.ctx]

\* a loop that fails open: a hook that raises is skipped
PreHookOutcome_FailOpen(c, name, r) ==
    LET trail == Append(c.preTrail, [hook |-> name, given |-> c.ctx, out |-> r,
                                     after |-> InputAfter(name, c.ctx)])
        c1 == [c EXCEPT !.preTrail = trail]
        next == IF r.kind = "throw" THEN c.ctx ELSE r.ctx
    IN  IF r.kind = "block"
        THEN [c1 EXCEPT !.pc = "done", !.result = BlockedResult(r.reason, r.code)]
        ELSE IF c.hook = Len(preHooks) THEN AfterPreHooks(c1, next)
        ELSE [c1 EXCEPT !.hook = c.hook + 1, !.ctx = next]

\* what runPreHooks does with the outcome r of the hook called name
PreHookOutcome(c, name, r) ==
    LET trail == Append(c.preTrail, [hook |-> name, given |-> c.ctx, out |-> r,
                                     after |-> InputAfter(name, c.ctx)])
        c1 == [c EXCEPT !.preTrail = trail]
    IN  CASE r.kind = "block" ->
                [c1 EXCEPT !.pc = "done", !.result = BlockedResult(r.reason, r.code)]
          [] r.kind = "throw" ->
                [c1 EXCEPT !.pc = "done",
                           !.result = BlockedResult(
                               <<"Hook \"" \o name \o "\" encountered an internal error.">>,
                               "GENERIC_BLOCK")]
          [] OTHER ->
                IF c.hook = Len(preHooks) THEN AfterPreHooks(c1, r.ctx)
                ELSE [c1 EXCEPT !.hook = c.hook + 1, !.ctx = r.ctx]

\* a pre-hook loop that writes a lesson to CLAUDE.md when a hook blocks with
\* SCOPE_VIOLATION
RunPreHook_RecordsViolation(s) ==
    /\ call[s].pc = "pre"
    /\ LET name == preHooks[call[s].hook]
           r == PreHookFn(name, call[s].ctx)
       IN  /\ call' = [call EXCEPT ![s] = PreHookOutcome(call[s], name, r)]
           /\ claudeMd' = IF r.kind = "block" /\ r.code = "SCOPE_VIOLATION"
                          THEN appendToCLAUDEMd("SCOPE_VIOLATION - " \o call[s].ctx.toolName, "ok")
                          ELSE claudeMd
    /\ UNCHANGED <<probe, lastUpdate, workload, registered, preHooks, postHooks, intentsFile, ignoreFile,
                   files, ledger, dispatched, audit>>

\* runPreHooks: one turn of the loop, the call of the next pre-hook
RunPreHook(s) ==
    /\ call[s].pc = "pre"
    /\ LET name == preHooks[call[s].hook]
       IN  call' = [call EXCEPT ![s] = PreHookOutcome(call[s], name, PreHookFn(name, call[s].ctx))]
    /\ UNCHANGED <<probe, lastUpdate, workload, registered, preHooks, postHooks, intentsFile, ignoreFile,
                   files, ledger, claudeMd, dispatched, audit>>

\* a dispatcher that runs the post-hooks in a finally clause: they run after
\* a tool that raised, too
InvokeTool_PostAfterError(s, ok) ==
    /\ call[s].pc = "tool"
    /\ LET c == call[s]
           after == HostToolEffect(c.ctx.toolName, c.ctx.params)
           outcome == IF ok THEN ToolResult(HostToolResult(c.ctx.toolName))
                      ELSE RaisedResult(HostToolError(c.ctx.toolName))
           c1 == [c EXCEPT !.toolCalls = c.toolCalls + 1]
       IN  /\ files' = IF ok THEN after ELSE files
           /\ call' = [call EXCEPT ![s] =
                         [c1 EXCEPT !.pc = IF postHooks = <<>> THEN "done" ELSE "post",
                                    !.hook = 1,
                                    !.toolResult = IF ok THEN HostToolResult(c.ctx.toolName) ELSE "",
                                    !.wrote = (ok /\ after # files),
                                    !.pending = outcome,
                                    !.result = IF postHooks = <<>> THEN outcome ELSE c.result]]
    /\ UNCHANGED <<probe, lastUpdate, workload, registered, preHooks, postHooks, intentsFile, ignoreFile,
                   ledger, claudeMd, dispatched, audit>>

\* await originalDispatch(preResult.toolName, preResult.params): the tool runs
\* and returns, or raises, and then dispatchWithHooks raises too
InvokeTool(s, ok) ==
    /\ call[s].pc = "tool"
    /\ LET c == call[s]
           after == HostToolEffect(c.ctx.toolName, c.ctx.params)
           c1 == [c EXCEPT !.toolCalls = c.toolCalls + 1]
       IN  IF ok
           THEN /\ files' = after
                /\ call' = [call EXCEPT ![s] =
                              [c1 EXCEPT !.pc = IF postHooks = <<>> THEN "done" ELSE "post",
                                         !.hook = 1,
                                         !.toolResult = HostToolResult(c.ctx.toolName),
                                         !.wrote = (after # files),
                                         !.pending = ToolResult(HostToolResult(c.ctx.toolName)),
                                         !.result = IF postHooks = <<>>
                                                    THEN ToolResult(HostToolResult(c.ctx.toolName))
                                                    ELSE c.result]]
           ELSE /\ files' = files
                /\ call' = [call EXCEPT ![s] = [c1 EXCEPT !.pc = "done",
                                                         !.result = RaisedResult(HostToolError(c.ctx.toolName))]]
    /\ UNCHANGED <<probe, lastUpdate, workload, registered, preHooks, postHooks, intentsFile, ignoreFile,
                   ledger, claudeMd, dispatched, audit>>

\* a loop without the try/catch: a post-hook that raises ends the dispatch
PostHookOutcome_Propagate(c, name, threw) ==
    LET c1 == [c EXCEPT !.postTrail = Append(@, [hook |-> name, threw |-> threw])]
    IN  IF threw THEN [c1 EXCEPT !.pc = "done", !.result = RaisedResult("error of " \o name)]
        ELSE IF c.hook = Len(postHooks) THEN AfterPostHooks(c1)
        ELSE [c1 EXCEPT !.hook = c.hook + 1]

\* what runPostHooks does after the hook called name ran (threw or not): the
\* hook's return value is dropped and the loop goes on
PostHookOutcome(c, name, threw) ==
    LET c1 == [c EXCEPT !.postTrail = Append(@, [hook |-> name, threw |-> threw])]
    IN  IF c.hook = Len(postHooks) THEN AfterPostHooks(c1)
        ELSE [c1 EXCEPT !.hook = c.hook + 1]

\* runPostHooks: one turn of the loop, the call of the next post-hook; io is
\* whether the hook's file write succeeds, raises whether IntentMapUpdater does
RunPostHook(s, io, raises) ==
    /\ call[s].pc = "post"
    /\ LET c == call[s]
           name == postHooks[c.hook]
           threw == (name = "IntentMapUpdater" /\ raises)
           c1 == [c EXCEPT !.appendFailed = @ \/ (name = "TraceLogger" /\ TraceApplies(c.ctx) /\ ~io),
                           !.lessons = @ + (IF name = "LessonRecorder" /\ LessonApplies(c.ctx) /\ io
                                            THEN 1 ELSE 0)]
       IN  /\ (name = "TraceLogger" /\ TraceApplies(c.ctx))
                \/ (name = "LessonRecorder" /\ LessonApplies(c.ctx))
                \/ io
           /\ name = "IntentMapUpdater" \/ ~raises
           /\ ledger' = IF name = "TraceLogger" THEN traceLogger(c.ctx, io) ELSE ledger
           /\ claudeMd' = IF name = "LessonRecorder" THEN lessonRecorder(c.ctx, IF io THEN "ok" ELSE "no write")
                                   ELSE claudeMd
           /\ call' = [call EXCEPT ![s] = PostHookOutcome(c1, name, threw)]
    /\ UNCHANGED <<probe, lastUpdate, workload, registered, preHooks, postHooks, intentsFile, ignoreFile,
                   files, dispatched, audit>>

\* the destructive set as the interface lists it
DestructiveSet ==
    { "write_file", "write_to_file", "create_file", "apply_diff", "apply_patch",
      "edit", "search_and_replace", "search_replace", "edit_file",
      "insert_code_block", "replace_in_file", "delete_file",
      "execute_command", "run_terminal_command", "generate_image" }

\* the write subset of the destructive tools as the interface names it: all
\* but execute_command, run_terminal_command and generate_image
WriteSet == DestructiveSet \ {"execute_command", "run_terminal_command", "generate_image"}

\* a write-set tool call that went through: not blocked, tool executed
WentThrough(c) ==
    c.result.kind = "tool" /\ c.toolCalls = 1 /\ c.request.tool \in WriteSet

\* what runPreHooks handed back to dispatchWithHooks: the outcome of the last
\* pre-hook that ran
PreVerdict(c) ==
    IF c.preTrail = <<>> THEN Pass(c.ctx) ELSE c.preTrail[Len(c.preTrail)].out

\* dispatchWithHooks returns (or raises) to the host; the runs that look at a
\* sequence of dispatches keep what the one that returned did
Return(s) ==
    /\ call[s].pc = "done"
    /\ audit' = [writes |-> audit.writes + (IF WentThrough(call[s]) THEN 1 ELSE 0),
                 traced |-> audit.traced
                            + (IF WentThrough(call[s])
                                  /\ extractTargetPath(call[s].ctx) # Undefined
                                  /\ ~call[s].appendFailed THEN 1 ELSE 0),
                 registrations |-> audit.registrations,
                 edits |-> audit.edits, editedAt |-> audit.editedAt,
                 last |-> IF workload = "sequence"
                          THEN [done |-> TRUE, request |-> call[s].request,
                                verdict |-> PreVerdict(call[s]), ctx |-> call[s].ctx,
                                result |-> call[s].result]
                          ELSE audit.last]
    /\ call' = [call EXCEPT ![s] = IdleCall]
    /\ UNCHANGED <<probe, lastUpdate, workload, registered, preHooks, postHooks, intentsFile, ignoreFile,
                   files, ledger, claudeMd, dispatched>>

Next ==
    \/ registerAllHooks
    \/ \E s \in ActiveSessions : \E req \in Requests : Dispatch(s, req)
    \/ \E s \in ActiveSessions : RunPreHook(s)
    \/ \E s \in ActiveSessions : \E ok \in BOOLEAN : InvokeTool(s, ok)
    \/ \E s \in ActiveSessions : \E io \in BOOLEAN : \E raises \in IntentMapUpdaterMayThrow : RunPostHook(s, io, raises)
    \/ \E s \in ActiveSessions : Return(s)

Spec == Init /\ [][Next]_vars

SpecConc == InitConc /\ [][Next]_vars

\* two sessions whose dispatches are writes that reach the ledger
InitAppends ==
    /\ InitWith("appends", { <<IntentsWith("IN_PROGRESS"), IgnoreOk>> })
    /\ probe = NoProbe
    /\ lastUpdate = NoUpdate

SpecAppends == InitAppends /\ [][Next]_vars

---------------------------------------------------------------------------
(* Dispatches with a human at the intent file: between two dispatches the  *)
(* file is edited by hand                                                  *)

EditKinds == {"narrow", "complete", "block", "delete"}

\* the intents after an edit by hand of the first intent of the file: a
\* pattern taken out of owned_scope, another status, or the intent deleted
Edited(intents, kind) ==
    CASE kind = "narrow"   -> [intents EXCEPT ![1] = [@ EXCEPT !.owned_scope = IF @ = <<>> THEN @ ELSE Tail(@)]]
      [] kind = "complete" -> [intents EXCEPT ![1] = [@ EXCEPT !.status = "COMPLETE"]]
      [] kind = "block"    -> [intents EXCEPT ![1] = [@ EXCEPT !.status = "BLOCKED"]]
      [] kind = "delete"   -> Tail(intents)

\* a human saves the intent file while no dispatch is running
HumanEdit(kind) ==
    /\ \A s \in Sessions : call[s].pc = "idle"
    /\ audit.edits < MaxEdits
    /\ intentsFile.state = "ok"
    /\ intentsFile.intents # <<>>
    /\ intentsFile' = [intentsFile EXCEPT !.intents = Edited(@, kind)]
    /\ audit' = [audit EXCEPT !.edits = @ + 1, !.editedAt = dispatched]
    /\ UNCHANGED <<probe, lastUpdate, workload, registered, preHooks, postHooks, ignoreFile,
                   files, ledger, claudeMd, call, dispatched>>

InitEdit ==
    /\ InitWith("edited", { <<IntentsWith("IN_PROGRESS"), IgnoreOk>> })
    /\ probe = NoProbe
    /\ lastUpdate = NoUpdate

NextEdit ==
    \/ Next
    \/ \E kind \in EditKinds : HumanEdit(kind)

SpecEdit == InitEdit /\ [][NextEdit]_vars

---------------------------------------------------------------------------
(* Two dispatches of one session in a row, the second looked at against    *)
(* what the first was given and gave back                                  *)

InitSequence ==
    /\ InitWith("sequence", { <<IntentsWith("IN_PROGRESS"), IgnoreOk>> })
    /\ probe = NoProbe
    /\ lastUpdate = NoUpdate

SpecSequence == InitSequence /\ [][Next]_vars

---------------------------------------------------------------------------
(* The hasher and the classifier on their own: hashCodeBlock and           *)
(* classifyMutation are called on an old and a new content of one file     *)

InitHash ==
    /\ InitWith("library", { <<IntentsWith("IN_PROGRESS"), IgnoreOk>> })
    /\ lastUpdate = NoUpdate
    /\ \E old \in SourceTexts : \E new \in SourceTexts : \E abs \in AbsPaths :
          probe = [NoProbe EXCEPT !.oldContent = old, !.newContent = new, !.filePath = abs]

\* await classifyMutation(oldContent, newContent, filePath)
ClassifyProbe ==
    /\ ~probe.classified
    /\ probe' = [probe EXCEPT !.classified = TRUE,
                              !.classification =
                                  classifyMutation(probe.oldContent, probe.newContent,
                                                   probe.filePath)]
    /\ UNCHANGED <<lastUpdate, workload, registered, preHooks, postHooks, intentsFile,
                   ignoreFile, files, ledger, claudeMd, call, dispatched, audit>>

\* await hashCodeBlock(content, filePath), for the old and for the new content
HashProbe ==
    /\ ~probe.hashed
    /\ probe' = [probe EXCEPT !.hashed = TRUE,
                              !.oldHash = hashCodeBlock(probe.oldContent, probe.filePath),
                              !.newHash = hashCodeBlock(probe.newContent, probe.filePath)]
    /\ UNCHANGED <<lastUpdate, workload, registered, preHooks, postHooks, intentsFile,
                   ignoreFile, files, ledger, claudeMd, call, dispatched, audit>>

NextHash ==
    \/ ClassifyProbe
    \/ HashProbe

SpecHash == InitHash /\ [][NextHash]_vars

---------------------------------------------------------------------------
(* The intent store on its own: updateIntentStatus is called on the file   *)

StoreIds == {"INT-001", "INT-002", "INT-404"}

InitStore ==
    /\ InitWith("store", { <<f, IgnoreOk>> :
            f \in { IntentsWith(st) : st \in Statuses }
                    \cup { NoIntentsFile, MalformedIntentsFile, TwiceIntentsFile } })
    /\ probe = NoProbe
    /\ lastUpdate = NoUpdate

\* updateIntentStatus(workspacePath, intentId, status) is called and returns
\* or throws
UpdateIntentStatus(intentId, status, writeOk) ==
    LET r == updateIntentStatus(intentId, status, writeOk)
    IN  /\ intentsFile' = r.file
        /\ lastUpdate' = [called |-> TRUE, id |-> intentId, status |-> status,
                          writeOk |-> writeOk, threw |-> r.threw, error |-> r.error,
                          before |-> intentsFile]
        /\ UNCHANGED <<probe, workload, registered, preHooks, postHooks, ignoreFile,
                       files, ledger, claudeMd, call, dispatched, audit>>

NextStore ==
    \E intentId \in StoreIds : \E status \in Statuses : \E writeOk \in BOOLEAN :
        UpdateIntentStatus(intentId, status, writeOk)

SpecStore == InitStore /\ [][NextStore]_vars

---------------------------------------------------------------------------
(* The lesson recorder on its own: the hook is handed a context, with any  *)
(* mutation class, and CLAUDE.md may have been written by hand             *)

\* how many sections CLAUDE.md gets, at most
MaxLessons == 2

HandClaudeHeader == "# CLAUDE.md - notes of the team"

\* no call of the lesson recorder is being looked at
NoLesson ==
    [called |-> FALSE, ctx |-> NoContext, io |-> "ok",
     before |-> [exists |-> FALSE, header |-> "", sections |-> <<>>]]

\* the contexts the lesson recorder is handed
LessonContexts ==
    { [NewContext(tool, params, intent) EXCEPT !.mutationClass = class] :
        tool \in {"write_to_file", "read_file"},
        params \in { NoParams,
                     [NoParams EXCEPT !["path"] = Str("src/api/routes.ts")],
                     [NoParams EXCEPT !["path"] = Str(""),
                                      !["file_path"] = Str("README.md")] },
        intent \in {Undefined, Str(""), Str("INT-001")},
        class \in {Undefined, Str("AST_REFACTOR"), Str("INTENT_EVOLUTION"), Str("UNKNOWN")} }

InitLesson ==
    /\ InitWith("lessons", { <<IntentsWith("IN_PROGRESS"), IgnoreOk>> })
    /\ probe = NoLesson
    /\ lastUpdate = NoUpdate

\* somebody writes a CLAUDE.md by hand before the hook ever ran
WriteClaudeMdByHand ==
    /\ ~probe.called
    /\ ~claudeMd.exists
    /\ claudeMd' = [exists |-> TRUE, header |-> HandClaudeHeader, sections |-> <<"use pnpm">>]
    /\ UNCHANGED <<probe, lastUpdate, workload, registered, preHooks, postHooks, intentsFile,
                   ignoreFile, files, ledger, call, dispatched, audit>>

\* await lessonRecorder(ctx)
LessonRecorderRuns(ctx, io) ==
    /\ Len(claudeMd.sections) < MaxLessons
    /\ claudeMd' = lessonRecorder(ctx, io)
    /\ probe' = [called |-> TRUE, ctx |-> ctx, io |-> io, before |-> claudeMd]
    /\ UNCHANGED <<lastUpdate, workload, registered, preHooks, postHooks, intentsFile,
                   ignoreFile, files, ledger, call, dispatched, audit>>

NextLesson ==
    \/ WriteClaudeMdByHand
    \/ \E ctx \in LessonContexts : \E io \in LessonIo : LessonRecorderRuns(ctx, io)

SpecLesson == InitLesson /\ [][NextLesson]_vars

---------------------------------------------------------------------------
(* Properties *)

InFlight(c) == c.pc # "idle"

Blocked(c, code) ==
    /\ c.pc = "done"
    /\ c.result.kind = "blocked"
    /\ c.result.blocked
    /\ c.result.type = "error"
    /\ c.result.code = code

\* C1 Authorization completeness: a dispatch of any destructive tool whose
\* context has no intent_id never reaches the host tool dispatcher and, once
\* it has returned, has returned a block with code NO_INTENT_DECLARED,
\* whatever its params and whatever the intent and ignore files hold.
C1_AuthorizationCompleteness ==
    \A s \in Sessions :
        LET c == call[s]
        IN  (InFlight(c) /\ c.request.tool \in DestructiveSet /\ ~Truthy(c.request.intent))
            => /\ c.toolCalls = 0
               /\ c.pc \in {"pre", "done"}
               /\ c.pc = "done" => Blocked(c, "NO_INTENT_DECLARED")

C1_Witness ==
    \E s \in Sessions :
        /\ call[s].request.tool = "generate_image"
        /\ call[s].request.intent = Undefined
        /\ call[s].request.params["read_hash"] = Str("raw-sha256:deadbeef")
        /\ intentsFile.state = "malformed"
        /\ Blocked(call[s], "NO_INTENT_DECLARED")
        /\ call[s].toolCalls = 0

\* the target of c lies outside the scope of the intent c runs under: the
\* intent exists, the target is named, .intentignore does not cover it and it
\* matches no owned_scope pattern
OutOfScope(c) ==
    LET target == FirstPath(c.request.params, PATH_PARAMS)
        abs == ResolveAbsolute(target.s)
        found == findIntent(c.request.intent.s)
    IN  /\ Truthy(c.request.intent)
        /\ target # Undefined
        /\ intentsFile.state = "ok"
        /\ ignoreFile.state # "unreadable"
        /\ found.found
        /\ ~isFileIgnored(abs)
        /\ \A i \in 1..Len(found.intent.owned_scope) :
              ~minimatch(toRelativePath(abs), found.intent.owned_scope[i])

\* C2 Scope soundness: a write-set tool call under an existing intent whose
\* target matches no owned_scope pattern and is not covered by .intentignore
\* never reaches the real tool and returns a block with code SCOPE_VIOLATION.
C2_ScopeSoundness ==
    \A s \in Sessions :
        LET c == call[s]
        IN  (InFlight(c) /\ c.request.tool \in WriteSet /\ OutOfScope(c))
            => /\ c.toolCalls = 0
               /\ c.pc \in {"pre", "done"}
               /\ c.pc = "done" => Blocked(c, "SCOPE_VIOLATION")

C2_Witness ==
    \E s \in Sessions :
        /\ call[s].request.tool = "delete_file"
        /\ call[s].request.intent = Str("INT-001")
        /\ call[s].request.params["destination"] = Str("src/ui/button.tsx")
        /\ OutOfScope(call[s])
        /\ Blocked(call[s], "SCOPE_VIOLATION")
        /\ call[s].result.error = <<"SCOPE_VIOLATION", "src/ui/button.tsx", "INT-001", "src/api/**">>

\* the handshake names an intent that exists with status PENDING or IN_PROGRESS
HandshakeAccepts(c) ==
    LET id == c.request.params["intent_id"]
    IN  /\ IsString(id)
        /\ intentsFile.state = "ok"
        /\ \E i \in 1..Len(intentsFile.intents) :
              /\ intentsFile.intents[i].id = id.s
              /\ \A j \in 1..(i - 1) : intentsFile.intents[j].id # id.s
              /\ intentsFile.intents[i].status \in {"PENDING", "IN_PROGRESS"}

ToolSucceeded(c) == c.toolCalls = 1 /\ c.pending.kind = "tool"

\* s and t run write-set tools against the same existing file, both with the
\* read_hash of the version the file had when the workload began
RaceOnOneVersion(s, t) ==
    /\ s # t
    /\ InFlight(call[s]) /\ InFlight(call[t])
    /\ call[s].request.tool \in WriteSet /\ call[t].request.tool \in WriteSet
    /\ call[s].request.params["path"] = Str("src/api/routes.ts")
    /\ call[t].request.params["path"] = Str("src/api/routes.ts")
    /\ call[s].request.params["read_hash"] = FreshHash
    /\ call[t].request.params["read_hash"] = FreshHash
    /\ Truthy(call[s].request.intent) /\ Truthy(call[t].request.intent)

\* C4 Optimistic lock, exactly one winner: of two dispatches from different
\* sessions that run concurrently against the same existing file with
\* write-set tools and the read_hash of the same file version, never both
\* have their write let through, and once both have returned one of them has
\* been blocked with STALE_FILE.
C4_ExactlyOneWinner ==
    \A s \in Sessions : \A t \in Sessions :
        RaceOnOneVersion(s, t)
        => /\ ~(ToolSucceeded(call[s]) /\ ToolSucceeded(call[t]))
           /\ (call[s].pc = "done" /\ call[t].pc = "done" /\ ToolSucceeded(call[s]))
                 => Blocked(call[t], "STALE_FILE")

\* the outcome of the lock guard for c, while the file it looked at is as it was
LockGuardRan(c) ==
    /\ c.preTrail # <<>>
    /\ c.preTrail[Len(c.preTrail)].hook = "OptimisticLockGuard"
    /\ c.toolCalls = 0
    /\ c.pc \in {"tool", "done"}

LockGuardGiven(c) == c.preTrail[Len(c.preTrail)].given

LockGuardOut(c) == c.preTrail[Len(c.preTrail)].out

\* the target of the call the lock guard was given exists and can be read
LockTarget(c) == FirstPath(LockGuardGiven(c).params, PATH_PARAMS)

LockTargetReadable(c) ==
    /\ LockTarget(c) # Undefined
    /\ files[ResolveAbsolute(LockTarget(c).s)].state = "ok"

CurrentFingerprint(c) ==
    "raw-sha256:" \o Sha256Hex(files[ResolveAbsolute(LockTarget(c).s)].content)

StaleBlock(c) ==
    /\ LockGuardOut(c).kind = "block"
    /\ LockGuardOut(c).code = "STALE_FILE"
    /\ Blocked(c, "STALE_FILE")

RegistrationOrder ==
    <<"ContextInjector", "IntentGatekeeper", "ScopeEnforcer", "OptimisticLockGuard">>

\* C6 Pre-chain order and short-circuit: the pre-hooks are invoked one at a
\* time in registration order (Context Injector, Gatekeeper, Scope Enforcer,
\* Lock Guard), each is given the context its predecessor returned, a block
\* signal is the result of the chain as soon as it is returned, no hook is
\* invoked after it, and the tool is reached only after all four passed.
C6_PreChainOrder ==
    \A s \in Sessions :
        LET c == call[s]
            trail == c.preTrail
            n == Len(trail)
        IN  InFlight(c)
            => /\ n <= Len(RegistrationOrder)
               /\ \A i \in 1..n : trail[i].hook = RegistrationOrder[i]
               /\ \A i \in 1..n :
                     trail[i].given =
                        IF i = 1
                        THEN NewContext(c.request.tool, c.request.params, c.request.intent)
                        ELSE trail[i - 1].out.ctx
               /\ \A i \in 1..(n - 1) : trail[i].out.kind = "ctx"
               /\ c.pc = "pre" => n = c.hook - 1
               /\ (n > 0 /\ trail[n].out.kind = "block")
                     => /\ Blocked(c, trail[n].out.code)
                        /\ c.result.error = trail[n].out.reason
                        /\ c.result.blockReason = trail[n].out.reason
               /\ (c.pc \in {"tool", "post"} \/ c.toolCalls > 0 \/ c.postTrail # <<>>)
                     => /\ n = Len(RegistrationOrder)
                        /\ trail[n].out.kind = "ctx"
                        /\ c.ctx = trail[n].out.ctx

C6_Witness ==
    \E s \in Sessions :
        LET c == call[s]
        IN  /\ c.pc = "done"
            /\ c.request.tool = "write_to_file"
            /\ Len(c.preTrail) = 3
            /\ c.preTrail[2].out.kind = "ctx"
            /\ c.preTrail[3].hook = "ScopeEnforcer"
            /\ c.preTrail[3].out.kind = "block"
            /\ Blocked(c, "SCOPE_VIOLATION")

\* C7 Fail-safe pre-hooks: when a pre-hook raises, the chain returns a block
\* signal with code GENERIC_BLOCK whose reason names that hook, no later
\* pre-hook runs, and neither the real tool nor a post-hook is invoked.
C7_FailSafePreHooks ==
    \A s \in Sessions :
        LET c == call[s]
            trail == c.preTrail
        IN  \A i \in 1..Len(trail) :
                trail[i].out.kind = "throw"
                => /\ i = Len(trail)
                   /\ Blocked(c, "GENERIC_BLOCK")
                   /\ c.result.error =
                        <<"Hook \"" \o trail[i].hook \o "\" encountered an internal error.">>
                   /\ c.toolCalls = 0
                   /\ c.postTrail = <<>>

C7_Witness ==
    \E s \in Sessions :
        LET c == call[s]
        IN  /\ c.request.tool = "apply_patch"
            /\ Len(c.preTrail) = 3
            /\ c.preTrail[3].hook = "ScopeEnforcer"
            /\ c.preTrail[3].out.kind = "throw"
            /\ Blocked(c, "GENERIC_BLOCK")
            /\ c.result.error = <<"Hook \"ScopeEnforcer\" encountered an internal error.">>
            /\ c.toolCalls = 0

PostOrder == <<"TraceLogger", "IntentMapUpdater", "LessonRecorder">>

\* C8 Post-hook failure isolation: the post-hooks are invoked in registration
\* order (Trace Logger, Intent-Map Updater, Lesson Recorder), all of them
\* even when an earlier one raised; a dispatch whose tool returned returns
\* that tool result unchanged, and a dispatch raises only when the tool did.
C8_PostHookIsolation ==
    \A s \in Sessions :
        LET c == call[s]
            trail == c.postTrail
        IN  InFlight(c)
            => /\ Len(trail) <= Len(PostOrder)
               /\ \A i \in 1..Len(trail) : trail[i].hook = PostOrder[i]
               /\ (c.pc = "done" /\ c.pending.kind \in {"tool", "injected"})
                     => /\ Len(trail) = Len(PostOrder)
                        /\ c.result = c.pending
                        /\ ~c.result.blocked
               /\ (c.pc = "done" /\ ToolSucceeded(c))
                     => /\ c.result.kind = "tool"
                        /\ c.result.content = HostToolResult(c.request.tool)
               /\ c.result.kind = "raised" => (trail = <<>> /\ c.pending.kind = "none")

C8_Witness ==
    \E s \in Sessions :
        LET c == call[s]
        IN  /\ c.pc = "done"
            /\ c.request.tool = "write_to_file"
            /\ Len(c.postTrail) = 3
            /\ c.postTrail[2].hook = "IntentMapUpdater"
            /\ c.postTrail[2].threw
            /\ c.postTrail[3].hook = "LessonRecorder"
            /\ c.result.kind = "tool"
            /\ c.result.content = HostToolResult("write_to_file")
            /\ Len(ledger) = 1

\* no dispatch is in flight
Quiescent == \A s \in Sessions : call[s].pc = "idle"

\* a complete ledger entry: every field of the line is filled in
CompleteEntry(e) ==
    /\ e.mutation_class \in {"AST_REFACTOR", "INTENT_EVOLUTION", "UNKNOWN"}
    /\ e.classification_reason # ""
    /\ e.relative_path # ""
    /\ e.hash_method \in {"ast", "raw"}
    /\ e.content_hash # ""
    /\ Len(e.related) <= 1

ChangesExportedSurface(c) ==
    /\ c.pc = "done"
    /\ c.request.tool \in WriteSet
    /\ Truthy(c.request.intent)
    /\ c.request.params["path"] = Str("src/api/routes.ts")
    /\ ToolSucceeded(c)
    /\ Len(c.postTrail) = Len(PostOrder)
    /\ ~c.appendFailed
    /\ c.ctx.oldContent = Str(SrcF1)
    /\ files[ResolveAbsolute("src/api/routes.ts")] = File("ok", SrcF2)
    /\ classifyMutation(SrcF1, SrcF2, ResolveAbsolute("src/api/routes.ts")).mutationClass
          = "INTENT_EVOLUTION"

\* C10 Lesson recording end to end (S6): once the post-chain of a write-set
\* tool call with an intent_id that changed a file's exported surface has
\* finished, CLAUDE.md has gained exactly one new section and the ledger line
\* of the call has mutation_class INTENT_EVOLUTION.
C10_LessonRecorded ==
    \A s \in Sessions :
        (dispatched = 1 /\ ChangesExportedSurface(call[s]))
        => /\ Len(ledger) = 1
           /\ ledger[1].mutation_class = "INTENT_EVOLUTION"
           /\ claudeMd.exists
           /\ Len(claudeMd.sections) = 1

---------------------------------------------------------------------------
(* Properties of the hasher and the classifier *)

\* the file of the probe has a supported source extension
SupportedSource == extname(probe.filePath) \in TS_EXTENSIONS

ProbeDone == probe.classified /\ probe.hashed

\* the exported surface of a content, as the set of its signatures by key
SurfaceOf(content) ==
    LET map == exportMap(extractExports(content, probe.filePath))
    IN  { map[i].sig : i \in 1..Len(map) }

SameSurface == SurfaceOf(probe.oldContent) = SurfaceOf(probe.newContent)

\* old or new content has an export the classifier can see
SomeExport == SurfaceOf(probe.oldContent) \cup SurfaceOf(probe.newContent) # {}

Range(list) == { list[i] : i \in 1..Len(list) }

\* a signature as the interface renders it
Rendered(sig) ==
    IF sig.kind = "fn" THEN "fn:" \o sig.name \o ":" \o ToString(sig.paramCount)
    ELSE sig.kind \o ":" \o sig.name

SameKey(a, b) == a.kind = b.kind /\ a.name = b.name

\* the exports of one surface that have no export of the same (kind, name) in
\* the other
Without(surface, other) == { a \in surface : \A b \in other : ~SameKey(a, b) }

\* the pairs <<old, new>> of one (kind, name) whose function arity differs
ArityChanged(oldSurface, newSurface) ==
    { pair \in oldSurface \X newSurface :
        /\ SameKey(pair[1], pair[2])
        /\ pair[1].kind = "fn"
        /\ pair[1].paramCount # pair[2].paramCount }

\* C12 Any export that is added, removed, or whose kind or function arity
\* changes makes classify return INTENT_EVOLUTION, and only such an export
\* does; added and removed hold exactly the rendered signatures of the
\* exports whose (kind, name) is only in new, only in old (a change of kind
\* is one removed and one added export), and changed holds exactly
\* "<old> -> <new>" for the functions whose arity differs, each once.
C12_SurfaceChangeIsEvolution ==
    probe.classified
    => LET oldSurface == SurfaceOf(probe.oldContent)
           newSurface == SurfaceOf(probe.newContent)
           added == Without(newSurface, oldSurface)
           removed == Without(oldSurface, newSurface)
           changed == ArityChanged(oldSurface, newSurface)
           got == probe.classification
       IN  /\ (added # {} \/ removed # {} \/ changed # {})
                <=> got.mutationClass = "INTENT_EVOLUTION"
           /\ got.mutationClass = "INTENT_EVOLUTION"
                => /\ Range(got.added) = { Rendered(a) : a \in added }
                   /\ Len(got.added) = Cardinality(added)
                   /\ Range(got.removed) = { Rendered(a) : a \in removed }
                   /\ Len(got.removed) = Cardinality(removed)
                   /\ Range(got.changed) =
                         { Rendered(pair[1]) \o " -> " \o Rendered(pair[2]) : pair \in changed }
                   /\ Len(got.changed) = Cardinality(changed)
           /\ got.mutationClass # "INTENT_EVOLUTION"
                => (got.added = <<>> /\ got.removed = <<>> /\ got.changed = <<>>)

C12_Witness ==
    /\ probe.classified
    /\ probe.filePath = ResolveAbsolute("src/api/routes.ts")
    /\ probe.oldContent = SrcF1H
    /\ probe.newContent = SrcF2
    /\ probe.classification.mutationClass = "INTENT_EVOLUTION"
    /\ probe.classification.added = <<>>
    /\ probe.classification.removed = <<"fn:h:0">>
    /\ probe.classification.changed = <<"fn:f:1 -> fn:f:2">>
    /\ probe.classification.reason =
          "API surface changed: -1 removed: fn:h:0; ~1 changed: fn:f:1 -> fn:f:2"

\* pairs <<c, reformatting of c>>: blank lines added, reindented, trailing
\* spaces added
Reformattings ==
    { <<SrcF1, SrcF1Spaced>>, <<SrcF1, SrcF1Indented>>, <<SrcF1Spaced, SrcF1Indented>>,
      <<SrcHelper, SrcHelperSpaced>>, <<SrcBroken, SrcBrokenSpaced>> }

ProbeReformats ==
    /\ probe.hashed
    /\ SupportedSource
    /\ \/ <<probe.oldContent, probe.newContent>> \in Reformattings
       \/ <<probe.newContent, probe.oldContent>> \in Reformattings

---------------------------------------------------------------------------
(* Properties of the intent store *)

\* the id was in the intent file when updateIntentStatus was called
IdWasPresent ==
    /\ lastUpdate.before.state = "ok"
    /\ \E i \in 1..Len(lastUpdate.before.intents) :
          lastUpdate.before.intents[i].id = lastUpdate.id

\* C14 Status-update round trip: for every intent id present in the intent
\* file and every status s of PENDING, IN_PROGRESS, BLOCKED, COMPLETE, once
\* updateIntentStatus(ws, id, s) has returned, findIntent(ws, id) returns an
\* intent whose status is s; and the call does return unless file I/O fails.
C14_StatusRoundTrip ==
    lastUpdate.called
    => /\ ~lastUpdate.threw
            => /\ findIntent(lastUpdate.id).found
               /\ findIntent(lastUpdate.id).intent.id = lastUpdate.id
               /\ findIntent(lastUpdate.id).intent.status = lastUpdate.status
       /\ (IdWasPresent /\ lastUpdate.writeOk) => ~lastUpdate.threw

C14_Witness ==
    /\ lastUpdate.called
    /\ ~lastUpdate.threw
    /\ lastUpdate.id = "INT-001"
    /\ lastUpdate.status = "BLOCKED"
    /\ lastUpdate.before = TwiceIntentsFile
    /\ findIntent("INT-001").intent.status = "BLOCKED"
    /\ findIntent("INT-001").intent.name = "API & routes"

---------------------------------------------------------------------------
(* Properties of the context injector *)

\* the runs of the context injector on select_active_intent, as
\* <<session, position in the pre-chain>>
InjectorRuns ==
    { sk \in Sessions \X (1..4) :
        /\ sk[2] <= Len(call[sk[1]].preTrail)
        /\ call[sk[1]].preTrail[sk[2]].hook = "ContextInjector"
        /\ call[sk[1]].preTrail[sk[2]].given.toolName = "select_active_intent" }

\* the statuses of the first intent of the file with this id: one, or none
StatusOfFirst(id) ==
    IF intentsFile.state # "ok" THEN {}
    ELSE { intentsFile.intents[i].status :
             i \in { j \in 1..Len(intentsFile.intents) :
                       /\ intentsFile.intents[j].id = id
                       /\ \A k \in 1..(j - 1) : intentsFile.intents[k].id # id } }

BlocksWith(out, code) == out.kind = "block" /\ out.code = code

---------------------------------------------------------------------------
(* Properties of the result of dispatchWithHooks *)

\* the block signals a pre-hook of this call returned, as positions in the trail
BlockSignals(c) == { i \in 1..Len(c.preTrail) : c.preTrail[i].out.kind = "block" }

---------------------------------------------------------------------------
(* Properties of what leaves dispatchWithHooks *)

\* a hook of this call raised: a pre-hook (the intent or ignore file could not
\* be read) or a post-hook
HookRaised(c) ==
    \/ \E i \in 1..Len(c.preTrail) : c.preTrail[i].out.kind = "throw"
    \/ \E i \in 1..Len(c.postTrail) : c.postTrail[i].threw

\* C17 Error propagation policy: for every input and filesystem state,
\* dispatchWithHooks either returns normally (a block payload, the injected
\* result or the tool's result) or raises exactly the error the host tool
\* dispatcher raised; no error from a pre-hook, a post-hook, the intent store,
\* the VCS probe or the parser escapes it.
C17_ErrorPropagation ==
    \A s \in Sessions :
        LET c == call[s]
        IN  c.pc = "done"
            => /\ c.result.kind \in {"blocked", "injected", "tool", "raised"}
               /\ c.result.kind = "raised"
                    => /\ c.toolCalls = 1
                       /\ c.pending.kind = "none"
                       /\ c.result.error = <<HostToolError(c.ctx.toolName)>>
                       /\ ~HookRaised(c)
               /\ HookRaised(c) => c.result.kind \in {"blocked", "injected", "tool"}
               /\ c.result.kind = "blocked" => c.result.type = "error"

C17_Witness ==
    \E s \in Sessions :
        LET c == call[s]
        IN  /\ c.pc = "done"
            /\ c.request.tool = "write_to_file"
            /\ Len(c.preTrail) = 4
            /\ c.toolCalls = 1
            /\ c.result.kind = "raised"
            /\ c.result.error = <<HostToolError("write_to_file")>>
            /\ c.postTrail = <<>>

\* a pre-hook raised on the intent file and the dispatch returned a block
HookErrorContained ==
    \E s \in Sessions :
        LET c == call[s]
        IN  /\ c.pc = "done"
            /\ HookRaised(c)
            /\ intentsFile.state = "malformed"
            /\ c.result.kind = "blocked"

---------------------------------------------------------------------------
(* Properties of the registration *)

\* how often the hook called name occurs in a trail
Occurrences(trail, name) == Cardinality({ i \in 1..Len(trail) : trail[i].hook = name })

---------------------------------------------------------------------------
(* Properties of the contexts the pre-hooks pass on *)

\* the fields in which the context b differs from the context a
ChangedFields(a, b) == { f \in DOMAIN a : a[f] # b[f] }

\* the fields a pre-hook may set on the context it returns
Enrichments(name) ==
    CASE name = "ContextInjector"     -> {"intentId", "injectedContext"}
      [] name = "OptimisticLockGuard" -> {"oldContent"}
      [] OTHER                        -> {}

---------------------------------------------------------------------------
(* Properties of the ledger line of an allowed write *)

\* the target of the call lies in the owned_scope of the session's intent
InScope(c) ==
    LET target == FirstPath(c.request.params, PATH_PARAMS)
        found == findIntent(c.request.intent.s)
    IN  /\ Truthy(c.request.intent)
        /\ target # Undefined
        /\ intentsFile.state = "ok"
        /\ found.found
        /\ \E i \in 1..Len(found.intent.owned_scope) :
              minimatch(toRelativePath(ResolveAbsolute(target.s)), found.intent.owned_scope[i])

\* a write-set tool call with an active intent on an in-scope path that was
\* allowed, whose tool ran and whose ledger line the trace logger has appended
AllowedWriteTraced(c) ==
    /\ InFlight(c)
    /\ c.request.tool \in WriteSet
    /\ InScope(c)
    /\ c.toolCalls = 1
    /\ c.pending.kind = "tool"
    /\ Len(c.postTrail) >= 1
    /\ ~c.appendFailed

\* the ledger line of the call in flight: the last one
LastLine == ledger[Len(ledger)]

\* the lock guard captured the content the target had before the write
OldContentCaptured(c) == c.ctx.oldContent # Undefined

\* the content of the target after the write, as the trace logger reads it
ContentAfter(c) ==
    LET file == files[ResolveAbsolute(FirstPath(c.request.params, PATH_PARAMS).s)]
    IN  IF file.state = "ok" THEN file.content ELSE ""

\* the classifier has something to compare: a supported source extension and
\* an export in the old or in the new content
Classifiable(c) ==
    LET abs == ResolveAbsolute(FirstPath(c.request.params, PATH_PARAMS).s)
    IN  /\ extname(abs) \in TS_EXTENSIONS
        /\ \/ extractExports(c.ctx.oldContent.s, abs) # <<>>
           \/ extractExports(ContentAfter(c), abs) # <<>>

---------------------------------------------------------------------------
(* Properties of a call whose intent is missing from the intent file *)

\* the session's intent_id is set and names no intent of the intent file
IntentMissing(c) ==
    /\ Truthy(c.request.intent)
    /\ IsString(c.request.intent)
    /\ intentsFile.state # "malformed"
    /\ ~findIntent(c.request.intent.s).found

\* C21 Intent-missing case: when the Scope Enforcer passes a call through
\* because ctx.intentId names no intent in the intent file, the Intent
\* Gatekeeper has already handled that case: a destructive tool call whose
\* intentId does not resolve to an existing intent never reaches the real tool.
C21_MissingIntentNeverRuns ==
    \A s \in Sessions :
        LET c == call[s]
        IN  (InFlight(c) /\ c.request.tool \in DESTRUCTIVE_TOOLS /\ IntentMissing(c))
            => /\ c.toolCalls = 0
               /\ c.pc # "tool"

---------------------------------------------------------------------------
(* Properties of the tool sets of the lock guard and the trace logger *)

\* the lock guard did its work on the call: it blocked a stale read or
\* captured the content of the target
LockGuardActed(c) ==
    \/ StaleBlock(c)
    \/ /\ LockGuardOut(c).kind = "ctx"
       /\ LockGuardOut(c).ctx.oldContent =
            Str(files[ResolveAbsolute(LockTarget(c).s)].content)

\* C22 Lock Guard coverage: the Lock Guard performs its stale-read check and
\* snapshot capture for every tool in the write subset, i.e. every destructive
\* tool except execute_command, run_terminal_command and generate_image, and
\* for no other tool; the Trace Logger triggers on exactly the same set.
C22_LockGuardCoverage ==
    \A s \in Sessions :
        LET c == call[s]
        IN  /\ LockGuardRan(c)
                => /\ (c.request.tool \in WriteSet /\ LockTargetReadable(c))
                         => LockGuardActed(c)
                   /\ c.request.tool \notin WriteSet
                         => (LockGuardOut(c).kind = "ctx"
                             /\ LockGuardOut(c).ctx = LockGuardGiven(c))
            /\ (c.pending.kind = "tool" /\ Len(c.postTrail) >= 1
                   /\ extractTargetPath(c.ctx) # Undefined /\ ~c.appendFailed)
                => (c.request.tool \in WriteSet <=> TraceApplies(c.ctx))

---------------------------------------------------------------------------
(* Properties of a malformed intent file *)

\* the run e of a pre-hook reaches its call of findIntent: the handshake
\* lookup of the context injector, or the scope check of the scope enforcer
ConsultsStore(e) ==
    \/ /\ e.hook = "ContextInjector"
       /\ e.given.toolName = "select_active_intent"
       /\ IsString(e.given.params["intent_id"])
       /\ e.given.params["intent_id"].s # ""
    \/ /\ e.hook = "ScopeEnforcer"
       /\ e.given.toolName \notin READ_ONLY_TOOLS
       /\ Truthy(e.given.intentId)
       /\ FirstPath(e.given.params, PATH_PARAMS) # Undefined
       /\ ignoreFile.state # "unreadable"
       /\ ~isFileIgnored(ResolveAbsolute(FirstPath(e.given.params, PATH_PARAMS).s))

---------------------------------------------------------------------------
(* Properties of the classifier and the hasher on content that does not parse *)

\* the parser fails on the old or on the new content of the probe
ParseFails ==
    /\ SupportedSource
    /\ ~Parse(probe.oldContent).ok \/ ~Parse(probe.newContent).ok

---------------------------------------------------------------------------
(* Properties of the class the trace logger writes *)

\* the tool of the call ran and the trace logger has appended its line
Traced(c) ==
    /\ InFlight(c)
    /\ c.toolCalls = 1
    /\ c.pending.kind = "tool"
    /\ Len(c.postTrail) >= 1
    /\ TraceApplies(c.ctx)
    /\ ~c.appendFailed

\* C25 Trace Logger class derivation: the mutation_class written to a ledger
\* line is the classifier's result on (old content snapshot, post-write
\* content) whenever the context carries an old content snapshot, and is
\* UNKNOWN with a "no old content captured" reason whenever it does not
\* (new file, unreadable file, or a tool outside the lock guard's set).
C25_ClassDerivation ==
    \A s \in Sessions :
        LET c == call[s]
            abs == ResolveAbsolute(FirstPath(c.request.params, PATH_PARAMS).s)
            result == classifyMutation(c.ctx.oldContent.s, ContentAfter(c), abs)
        IN  Traced(c)
            => /\ OldContentCaptured(c)
                    => /\ LastLine.mutation_class = result.mutationClass
                       /\ LastLine.classification_reason = result.reason
               /\ ~OldContentCaptured(c)
                    => /\ LastLine.mutation_class = "UNKNOWN"
                       /\ LastLine.classification_reason =
                            "Classification skipped - no old content captured"
               /\ c.request.tool \notin WRITE_TOOLS => ~OldContentCaptured(c)
               /\ LastLine.relative_path = toRelativePath(abs)

C25_Witness ==
    \E s \in Sessions :
        LET c == call[s]
        IN  /\ Traced(c)
            /\ c.ctx.oldContent = Str(SrcF1)
            /\ ContentAfter(c) = SrcF1Helper
            /\ LastLine.mutation_class = "AST_REFACTOR"
            /\ LastLine.classification_reason =
                  "Exported API surface unchanged - internal refactor only"

\* a line written without a snapshot: the target was deleted, then written anew
NewFileLine ==
    \E s \in Sessions :
        LET c == call[s]
        IN  /\ Traced(c)
            /\ c.request.tool = "write_to_file"
            /\ ~OldContentCaptured(c)
            /\ LastLine.mutation_class = "UNKNOWN"

---------------------------------------------------------------------------
(* Properties of the gatekeeper and the scope enforcer taken alone *)

\* the runs of the hook called name, as <<session, position in the pre-chain>>
RunsOf(name) ==
    { sk \in Sessions \X (1..4) :
        /\ sk[2] <= Len(call[sk[1]].preTrail)
        /\ call[sk[1]].preTrail[sk[2]].hook = name }

\* the hook returned the context it was given, as it was
PassedUnchanged(e) == e.out.kind = "ctx" /\ e.out.ctx = e.given /\ e.after = e.given

\* C26 Gatekeeper pass-through: for every tool on the read-only/meta allowlist
\* and every tool in neither the allowlist nor the destructive set, the Intent
\* Gatekeeper returns the context unchanged whether or not intentId is set; it
\* blocks only destructive tools with intentId unset.
C26_GatekeeperPassThrough ==
    \A sk \in RunsOf("IntentGatekeeper") :
        LET e == call[sk[1]].preTrail[sk[2]]
        IN  /\ e.given.toolName \in SAFE_TOOLS => PassedUnchanged(e)
            /\ e.given.toolName \notin SAFE_TOOLS \cup DESTRUCTIVE_TOOLS => PassedUnchanged(e)
            /\ e.out.kind # "throw"
            /\ e.out.kind = "block"
                  <=> (e.given.toolName \in DESTRUCTIVE_TOOLS /\ ~Truthy(e.given.intentId))
            /\ e.out.kind = "block" => e.out.code = "NO_INTENT_DECLARED"
            /\ e.out.kind = "ctx" => PassedUnchanged(e)

C26_Witness ==
    \E sk \in RunsOf("IntentGatekeeper") :
        LET e == call[sk[1]].preTrail[sk[2]]
        IN  /\ e.given.toolName = UnknownTool
            /\ e.given.intentId = Undefined
            /\ PassedUnchanged(e)
            /\ call[sk[1]].toolCalls = 1


\* the first of path, file_path, target_file, destination that is a non-empty
\* string, or Undefined
TargetOf(ctx) ==
    IF IsString(ctx.params["path"]) /\ ctx.params["path"].s # "" THEN ctx.params["path"]
    ELSE IF IsString(ctx.params["file_path"]) /\ ctx.params["file_path"].s # ""
    THEN ctx.params["file_path"]
    ELSE IF IsString(ctx.params["target_file"]) /\ ctx.params["target_file"].s # ""
    THEN ctx.params["target_file"]
    ELSE IF IsString(ctx.params["destination"]) /\ ctx.params["destination"].s # ""
    THEN ctx.params["destination"]
    ELSE Undefined

\* the target is covered by a pattern of the ignore file
Ignored(ctx) ==
    /\ ignoreFile.state = "ok"
    /\ \E i \in 1..Len(ignoreFile.lines) :
          /\ ignoreFile.lines[i] # ""
          /\ ~StartsWithHash(ignoreFile.lines[i])
          /\ minimatch(toRelativePath(ResolveAbsolute(TargetOf(ctx).s)), ignoreFile.lines[i])

\* one of the pass-through cases of the scope enforcer holds for ctx
PassThroughCase(ctx) ==
    \/ ctx.toolName \in READ_ONLY_TOOLS
    \/ ~Truthy(ctx.intentId)
    \/ TargetOf(ctx) = Undefined
    \/ Ignored(ctx)

\* the intent of ctx exists and the target matches none of its patterns
OutsideScope(ctx) ==
    /\ intentsFile.state = "ok"
    /\ StatusOfFirst(ctx.intentId.s) # {}
    /\ \A i \in 1..Len(findIntent(ctx.intentId.s).intent.owned_scope) :
          ~minimatch(toRelativePath(ResolveAbsolute(TargetOf(ctx).s)),
                     findIntent(ctx.intentId.s).intent.owned_scope[i])

\* C27 Scope Enforcer pass-through cases: the Scope Enforcer returns the
\* context unchanged, without a block, when the tool is on the read-only
\* allowlist, when intentId is unset, when none of the parameters path,
\* file_path, target_file, destination (tried in that order) is a non-empty
\* string, or when the absolute target is covered by a pattern of the ignore
\* file; it emits SCOPE_VIOLATION only when none of these hold, the intent
\* exists and the target matches no owned_scope pattern.
C27_ScopePassThrough ==
    \A sk \in RunsOf("ScopeEnforcer") :
        LET e == call[sk[1]].preTrail[sk[2]]
        IN  /\ PassThroughCase(e.given) => PassedUnchanged(e)
            /\ e.out.kind = "block"
                  => /\ e.out.code = "SCOPE_VIOLATION"
                     /\ ~PassThroughCase(e.given)
                     /\ OutsideScope(e.given)
                     /\ e.out.reason[2] = toRelativePath(ResolveAbsolute(TargetOf(e.given).s))
            /\ (~PassThroughCase(e.given) /\ ignoreFile.state # "unreadable"
                   /\ OutsideScope(e.given))
                  => e.out.kind = "block"
            /\ e.out.kind = "throw"
                  => (ignoreFile.state = "unreadable" \/ intentsFile.state = "malformed")

C27_Witness ==
    \E sk \in RunsOf("ScopeEnforcer") :
        LET e == call[sk[1]].preTrail[sk[2]]
        IN  /\ e.given.toolName = "write_to_file"
            /\ e.given.intentId = Str("INT-001")
            /\ TargetOf(e.given) = Str("README.md")
            /\ Ignored(e.given)
            /\ OutsideScope(e.given)
            /\ PassedUnchanged(e)

---------------------------------------------------------------------------
(* Properties of dispatches after an edit of the intent file by hand *)

\* C28 No caching of policy: every dispatch decides against the intent file
\* and the ignore file as they are on disk when its hooks run; after a human
\* took a pattern out of owned_scope, changed an intent's status or deleted an
\* intent between two dispatches, the handshake and the scope decision of the
\* second dispatch follow the new file.
C28_NoCaching ==
    /\ \A sk \in InjectorRuns :
          LET e == call[sk[1]].preTrail[sk[2]]
              st == StatusOfFirst(e.given.params["intent_id"].s)
          IN  /\ e.out.kind = "ctx" <=> st \in {{"PENDING"}, {"IN_PROGRESS"}}
              /\ st = {} => BlocksWith(e.out, "UNKNOWN_INTENT")
              /\ st = {"COMPLETE"} => BlocksWith(e.out, "COMPLETE_INTENT")
              /\ st = {"BLOCKED"} => BlocksWith(e.out, "BLOCKED_INTENT")
    /\ \A sk \in RunsOf("ScopeEnforcer") :
          LET e == call[sk[1]].preTrail[sk[2]]
          IN  ~PassThroughCase(e.given)
              => /\ e.out.kind = "block" <=> OutsideScope(e.given)
                 /\ StatusOfFirst(e.given.intentId.s) = {} => PassedUnchanged(e)

\* the write that went through before the edit is blocked after it
C28_Witness ==
    /\ audit.edits = 1
    /\ audit.editedAt = 1
    /\ audit.writes = 1
    /\ dispatched = 2
    /\ findIntent("INT-001").intent.owned_scope = <<>>
    /\ LET c == call[1]
       IN  /\ c.request.tool = "write_to_file"
           /\ c.request.intent = Str("INT-001")
           /\ Len(c.preTrail) = 3
           /\ c.preTrail[3].out.kind = "block"
           /\ Blocked(c, "SCOPE_VIOLATION")

\* the handshake that would have been accepted before the edit is refused
HandshakeAfterDelete ==
    /\ audit.edits = 1
    /\ audit.editedAt = 1
    /\ StatusOfFirst("INT-001") = {}
    /\ call[1].request.tool = "select_active_intent"
    /\ Blocked(call[1], "UNKNOWN_INTENT")

---------------------------------------------------------------------------
(* Properties of the classifier under a permutation of the declarations *)

\* the texts with the top-level declarations of content in some order
PermutationsOf(content) ==
    CASE content \in {SrcF1H, SrcHF1} -> {SrcF1H, SrcHF1}
      [] content \in {SrcF12, SrcF21} -> {SrcF12, SrcF21}
      [] OTHER                        -> {content}

\* no two exports of content have the same (kind, name)
DistinctKeys(content) ==
    LET exports == extractExports(content, probe.filePath)
    IN  \A i, j \in 1..Len(exports) :
            exportKey(exports[i]) = exportKey(exports[j]) => i = j

\* classifyMutation gives the same class and the same sets as the probe got
SameVerdict(old, new) ==
    LET r == classifyMutation(old, new, probe.filePath)
    IN  /\ r.mutationClass = probe.classification.mutationClass
        /\ Range(r.added) = Range(probe.classification.added)
        /\ Range(r.removed) = Range(probe.classification.removed)
        /\ Range(r.changed) = Range(probe.classification.changed)

\* The statement of C29 as the claim words it: for any old and new content,
\* permuting the declarations of either changes neither the class nor the
\* sets added, removed and changed.
C29_AnyOrder ==
    probe.classified
    => \A old \in PermutationsOf(probe.oldContent) :
          \A new \in PermutationsOf(probe.newContent) : SameVerdict(old, new)

\* C29 Classifier order independence: for old and new content in which no two
\* exports have the same kind and name, permuting the order of the top-level
\* declarations in old or in new changes neither the mutation class nor the
\* sets added, removed and changed; of two exports with the same kind and
\* name the later one counts, so there the order can change the result.
C29_OrderIndependence ==
    (probe.classified /\ DistinctKeys(probe.oldContent) /\ DistinctKeys(probe.newContent))
    => \A old \in PermutationsOf(probe.oldContent) :
          \A new \in PermutationsOf(probe.newContent) : SameVerdict(old, new)

C29_Witness ==
    /\ probe.classified
    /\ SupportedSource
    /\ probe.oldContent = SrcF1H
    /\ probe.newContent = SrcF2
    /\ probe.classification.mutationClass = "INTENT_EVOLUTION"
    /\ Range(probe.classification.removed) = {"fn:h:0"}
    /\ Range(probe.classification.changed) = {"fn:f:1 -> fn:f:2"}
    /\ SameVerdict(SrcHF1, SrcF2)

\* the later of two exports with one key counts
LaterExportCounts ==
    /\ probe.classified
    /\ SupportedSource
    /\ probe.oldContent = SrcF12
    /\ probe.newContent = SrcF12
    /\ probe.classification.mutationClass = "AST_REFACTOR"
    /\ classifyMutation(SrcF12, SrcF21, probe.filePath).mutationClass = "INTENT_EVOLUTION"


\* the intents that updateIntentStatus found in the file, and the place of the
\* first of them that has the id of the call
IntentsBefore == lastUpdate.before.intents

FirstWithId ==
    CHOOSE i \in 1..Len(IntentsBefore) :
        /\ IntentsBefore[i].id = lastUpdate.id
        /\ \A j \in 1..(i - 1) : IntentsBefore[j].id # lastUpdate.id

\* C30 Frame of updateIntentStatus: a call that returns leaves the file with
\* the same intents in the same order, each with every attribute it had except
\* that the first intent with the id of the call has the new status and a new
\* updated_at; a call that throws leaves the file as it was; no intent is
\* deleted.
C30_UpdateFrame ==
    lastUpdate.called
    => IF lastUpdate.threw
       THEN intentsFile = lastUpdate.before
       ELSE /\ intentsFile.state = "ok"
            /\ Len(intentsFile.intents) = Len(IntentsBefore)
            /\ \A i \in 1..Len(IntentsBefore) :
                  /\ intentsFile.intents[i].id = IntentsBefore[i].id
                  /\ [intentsFile.intents[i] EXCEPT
                         !.status = IntentsBefore[i].status,
                         !.updated_at = IntentsBefore[i].updated_at] = IntentsBefore[i]
                  /\ intentsFile.intents[i] # IntentsBefore[i] => i = FirstWithId

\* a returned update of INT-001 in a file that holds three intents, two of
\* them with that id: the first has the new status, the others are as before
C30_Witness ==
    /\ lastUpdate.called
    /\ ~lastUpdate.threw
    /\ lastUpdate.id = "INT-001"
    /\ lastUpdate.status = "BLOCKED"
    /\ Len(IntentsBefore) = 3
    /\ IntentsBefore[3].id = "INT-001"
    /\ IntentsBefore[1].status = "PENDING"
    /\ intentsFile.intents[1].status = "BLOCKED"
    /\ intentsFile.intents[1].updated_at = Now
    /\ intentsFile.intents[3] = IntentsBefore[3]


\* the id of the call was in no intent of a file that could be loaded
IdWasUnknown ==
    /\ lastUpdate.called
    /\ lastUpdate.before.state # "malformed"
    /\ \A i \in 1..Len(IntentsBefore) : IntentsBefore[i].id # lastUpdate.id

TraceLoggerStep(s) ==
    /\ call[s].pc = "post"
    /\ postHooks[call[s].hook] = "TraceLogger"
    /\ call'[s] # call[s]

\* the line the trace logger computes over content for the call of session s
LineOver(s, content) ==
    TraceEntry(call[s].ctx, ResolveAbsolute(extractTargetPath(call[s].ctx).s), content)

TargetGone(s) ==
    files[ResolveAbsolute(extractTargetPath(call[s].ctx).s)].state # "ok"

\* C32 Trace Logger never raises: when the trace logger runs for a write-set
\* tool call with a target path it returns without raising, whatever the
\* files hold; if its append fails the ledger stays as it was, and otherwise
\* the ledger grows by exactly one line, which is computed over the empty
\* content when the target file no longer exists.
C32_TraceLoggerNeverRaises ==
    [][\A s \in Sessions :
         (TraceLoggerStep(s)
              /\ call[s].ctx.toolName \in WriteSet
              /\ extractTargetPath(call[s].ctx) # Undefined)
         => /\ call'[s].pc \in {"post", "done"}
            /\ call'[s].postTrail = Append(call[s].postTrail,
                                           [hook |-> "TraceLogger", threw |-> FALSE])
            /\ call'[s].pending = call[s].pending
            /\ IF call'[s].appendFailed
               THEN ledger' = ledger
               ELSE /\ Len(ledger') = Len(ledger) + 1
                    /\ SubSeq(ledger', 1, Len(ledger)) = ledger
                    /\ TargetGone(s) => ledger'[Len(ledger')] = LineOver(s, "")]_vars

\* delete_file went through, its target is gone, and the trace logger has
\* returned and left a line over the empty content
C32_Witness ==
    \E s \in Sessions :
        /\ call[s].pc \in {"post", "done"}
        /\ call[s].ctx.toolName = "delete_file"
        /\ extractTargetPath(call[s].ctx) # Undefined
        /\ call[s].toolCalls = 1
        /\ call[s].postTrail # <<>>
        /\ call[s].postTrail[1] = [hook |-> "TraceLogger", threw |-> FALSE]
        /\ ~call[s].appendFailed
        /\ TargetGone(s)
        /\ ledger # <<>>
        /\ LastLine = LineOver(s, "")
        /\ LastLine.content_hash = hashCodeBlock("", ResolveAbsolute(extractTargetPath(call[s].ctx).s)).hash

\* the append failed: the trace logger returned and the ledger has no line
TraceAppendSwallowed ==
    \E s \in Sessions :
        /\ call[s].pc \in {"post", "done"}
        /\ call[s].appendFailed
        /\ call[s].postTrail[1] = [hook |-> "TraceLogger", threw |-> FALSE]
        /\ ledger = <<>>


---------------------------------------------------------------------------
(* Properties of the lesson recorder *)

\* the context has the class INTENT_EVOLUTION, a non-empty intent id and a
\* non-empty string in one of the path params
LessonTrigger(ctx) ==
    /\ ctx.mutationClass.t = "string"
    /\ ctx.mutationClass.s = "INTENT_EVOLUTION"
    /\ ctx.intentId.t = "string"
    /\ ctx.intentId.s # ""
    /\ \E n \in {"path", "file_path", "target_file", "destination"} :
          ctx.params[n].t = "string" /\ ctx.params[n].s # ""

LessonNotTriggered ==
    /\ probe.called
    /\ probe.ctx.mutationClass = Str("AST_REFACTOR")
    /\ probe.ctx.intentId = Str("INT-001")
    /\ probe.before.exists
    /\ probe.before.header = HandClaudeHeader
    /\ claudeMd = probe.before

\* the header was written and the append failed: a file with no section
LessonSeededOnly ==
    /\ probe.called
    /\ probe.io = "no append"
    /\ ~probe.before.exists
    /\ claudeMd.exists
    /\ claudeMd.sections = <<>>


---------------------------------------------------------------------------
(* Properties of a sequence of dispatches *)

\* runPreHooks of the call has returned and the tool has not run
PreChainDone(c) ==
    /\ c.pc \in {"tool", "post", "done"}
    /\ c.preTrail # <<>>
    /\ c.toolCalls = 0

\* the last dispatch that returned was a select_active_intent handshake that
\* succeeded: it returned the injected context of INT-001
HandshakeReturned ==
    /\ audit.last.done
    /\ audit.last.request.tool = "select_active_intent"
    /\ audit.last.result.kind = "injected"
    /\ ~audit.last.result.blocked
    /\ audit.last.ctx.intentId = Str("INT-001")

\* C34 No intent carried between calls: the context the first pre-hook is
\* given has the tool name, the params and the session intent of this very
\* dispatch; a dispatch with the same arguments as the one that returned
\* before it, on files that are as they were, gets the same outcome from the
\* pre-hooks; and a destructive call dispatched with no session intent after
\* a handshake that succeeded is blocked NO_INTENT_DECLARED without the tool
\* being invoked.
C34_NoIntentCarried ==
    \A s \in Sessions :
        LET c == call[s]
        IN  PreChainDone(c)
            => /\ c.preTrail[1].given.toolName = c.request.tool
               /\ c.preTrail[1].given.params = c.request.params
               /\ c.preTrail[1].given.intentId = c.request.intent
               /\ (audit.last.done /\ audit.last.request = c.request
                       /\ files = InitialFiles)
                    => PreVerdict(c) = audit.last.verdict
               /\ (HandshakeReturned /\ c.request.tool \in DestructiveSet
                       /\ ~Truthy(c.request.intent))
                    => Blocked(c, "NO_INTENT_DECLARED")

\* write_to_file with no session intent, dispatched after the handshake for
\* INT-001 returned its context, has come back blocked
C34_Witness ==
    /\ HandshakeReturned
    /\ call[1].request.tool = "write_to_file"
    /\ call[1].request.intent = Undefined
    /\ PreChainDone(call[1])
    /\ Blocked(call[1], "NO_INTENT_DECLARED")

\* the same write was dispatched twice with its intent and passed both times
SameArgumentsSameOutcome ==
    /\ audit.last.done
    /\ audit.last.request = call[1].request
    /\ audit.last.request.tool = "select_active_intent"
    /\ PreChainDone(call[1])
    /\ call[1].pc = "post"
    /\ PreVerdict(call[1]) = audit.last.verdict


---------------------------------------------------------------------------
(* Properties of toRelativePath *)

\* the absolute path lies under the workspace: it is the workspace path, a
\* slash, and a relative path
UnderWorkspace(abs) == \E t \in Targets : abs = WS \o "/" \o t

\* what the interface says toRelativePath(ws, abs) returns
StatedRelativePath(abs) ==
    IF UnderWorkspace(abs)
    THEN CHOOSE t \in Targets : abs = WS \o "/" \o t
    ELSE abs

\* the absolute path the trace logger made of the target of the call
TracedPath(c) == ResolveAbsolute(extractTargetPath(c.ctx).s)

\* C35 toRelativePath returns the workspace-relative path with forward
\* slashes when the absolute path lies under the workspace, and the absolute
\* path itself, not a path that begins with "..", when it does not: seen in
\* the relative_path of the ledger line the trace logger writes for a call.
C35_RelativeOrAbsolute ==
    \A s \in Sessions :
        Traced(call[s])
        => LastLine.relative_path = StatedRelativePath(TracedPath(call[s]))

\* a write under the workspace was traced with its workspace-relative path
RelativeUnderWorkspace ==
    /\ Traced(call[1])
    /\ TracedPath(call[1]) = "/ws/src/api/routes.ts"
    /\ LastLine.relative_path = "src/api/routes.ts"

\* a write to /etc/hosts.js was traced with a path that climbs out of the
\* workspace
RelativeClimbsOut ==
    /\ Traced(call[1])
    /\ TracedPath(call[1]) = "/etc/hosts.js"
    /\ ~UnderWorkspace(TracedPath(call[1]))
    /\ LastLine.relative_path = "../etc/hosts.js"


---------------------------------------------------------------------------
(* Properties of the order of the steps of a dispatch *)

\* runPreHooks returned a context, not a block, and the context carries no
\* injected intent context
PassedWithoutInjection(c) ==
    /\ c.preTrail # <<>>
    /\ c.preTrail[Len(c.preTrail)].out.kind = "ctx"
    /\ c.preTrail[Len(c.preTrail)].out.ctx.injectedContext = Undefined

\* every registered pre-hook ran, in order, and none blocked or raised
AllPreHooksReturned(c) ==
    /\ Len(c.preTrail) = Len(preHooks)
    /\ \A i \in 1..Len(c.preTrail) :
          c.preTrail[i].hook = preHooks[i] /\ c.preTrail[i].out.kind = "ctx"

\* C36 Tool invocation discipline: in a dispatch the host tool is invoked at
\* most once; a dispatch that has returned invoked it exactly once if and only
\* if the pre-hooks returned a context without injected context; it is invoked
\* only when every pre-hook has returned; and a post-hook runs only after the
\* tool has returned (or, for the handshake, without the tool), never after a
\* tool that raised.
C36_ToolInvocationDiscipline ==
    \A s \in Sessions :
        LET c == call[s]
        IN  /\ c.toolCalls <= 1
            /\ c.pc = "done" => (c.toolCalls = 1 <=> PassedWithoutInjection(c))
            /\ c.pc = "tool" => (AllPreHooksReturned(c) /\ c.toolCalls = 0 /\ c.postTrail = <<>>)
            /\ c.toolCalls = 1 => (AllPreHooksReturned(c) /\ PassedWithoutInjection(c))
            /\ c.pc = "pre" => (c.toolCalls = 0 /\ c.postTrail = <<>>)
            /\ c.postTrail # <<>>
                 => \/ c.pending.kind = "tool" /\ c.toolCalls = 1
                                               /\ c.toolResult = HostToolResult(c.ctx.toolName)
                    \/ c.pending.kind = "injected" /\ c.toolCalls = 0
            /\ c.result.kind = "raised" => (c.toolCalls = 1 /\ c.postTrail = <<>>)

\* a write went through: four pre-hooks, one tool call, three post-hooks
C36_Witness ==
    /\ call[1].pc = "done"
    /\ call[1].request.tool = "write_to_file"
    /\ Len(call[1].preTrail) = 4
    /\ call[1].toolCalls = 1
    /\ Len(call[1].postTrail) = 3
    /\ call[1].result.kind = "tool"

\* a handshake returned its context: post-hooks ran and the tool did not
HandshakeSkipsTool ==
    /\ call[1].pc = "done"
    /\ call[1].result.kind = "injected"
    /\ call[1].toolCalls = 0
    /\ Len(call[1].postTrail) = 3

\* the tool raised: it was invoked and no post-hook ran
ToolRaisedNoPostHooks ==
    /\ call[1].pc = "done"
    /\ call[1].result.kind = "raised"
    /\ call[1].toolCalls = 1
    /\ call[1].postTrail = <<>>


---------------------------------------------------------------------------
(* Properties of a blocked dispatch *)

\* this step is a step of the dispatch of session s
StepOf(s) == call'[s] # call[s]

\* the ledger, CLAUDE.md, the intent file, the ignore file, the target files
\* and the hook registries are after the step what they were before it
NoSideEffect ==
    /\ ledger' = ledger
    /\ claudeMd' = claudeMd
    /\ intentsFile' = intentsFile
    /\ ignoreFile' = ignoreFile
    /\ files' = files
    /\ preHooks' = preHooks
    /\ postHooks' = postHooks
    /\ registered' = registered

StaleBlockedUntouched ==
    /\ dispatched = 1
    /\ call[1].pc = "done"
    /\ call[1].result.blocked
    /\ call[1].result.code = "STALE_FILE"
    /\ files = InitialFiles
    /\ ledger = <<>>
    /\ ~claudeMd.exists


---------------------------------------------------------------------------
(* Properties of calls that break several rules at once *)

\* the call has no session intent
NoIntentDeclared(c) == ~(IsString(c.request.intent) /\ c.request.intent.s # "")

\* the call has an intent that exists in a readable intent file, a target
\* path that the readable ignore file does not cover, and the target matches
\* no owned_scope pattern of the intent
ScopeViolated(c) ==
    /\ ~NoIntentDeclared(c)
    /\ TargetOf(c.ctx) # Undefined
    /\ ignoreFile.state = "ok"
    /\ ~Ignored(c.ctx)
    /\ OutsideScope(c.ctx)

\* the target exists, can be read, and read_hash is a non-empty string that is
\* not the fingerprint of what the target holds
HashStale(c) ==
    LET file == files[ResolveAbsolute(TargetOf(c.ctx).s)]
        readHash == c.request.params["read_hash"]
    IN  /\ TargetOf(c.ctx) # Undefined
        /\ file.state = "ok"
        /\ IsString(readHash)
        /\ readHash.s # ""
        /\ readHash.s # "raw-sha256:" \o Sha256Hex(file.content)

\* the hook called name returned a context in this call
HookPassed(c, name) ==
    \E i \in 1..Len(c.preTrail) : c.preTrail[i].hook = name /\ c.preTrail[i].out.kind = "ctx"

\* C38 Block-code precedence: a write-set call that has returned and broke
\* several rules carries the code of the earliest hook of the chain: with no
\* session intent it is blocked NO_INTENT_DECLARED, also when its target is
\* outside the workspace or its read_hash is stale; with an intent and a
\* target out of scope it is blocked SCOPE_VIOLATION, also when its read_hash
\* is stale; and STALE_FILE is the code only of calls that the gatekeeper and
\* the scope enforcer passed.
C38_BlockCodePrecedence ==
    \A s \in Sessions :
        LET c == call[s]
        IN  (c.pc = "done" /\ c.request.tool \in WriteSet)
            => /\ NoIntentDeclared(c) => Blocked(c, "NO_INTENT_DECLARED")
               /\ ScopeViolated(c) => Blocked(c, "SCOPE_VIOLATION")
               /\ Blocked(c, "STALE_FILE")
                    => /\ HookPassed(c, "IntentGatekeeper")
                       /\ HookPassed(c, "ScopeEnforcer")
                       /\ ~NoIntentDeclared(c)
                       /\ ~ScopeViolated(c)
                       /\ HashStale(c)

\* a write to routes.ts under an intent that owns only src/ui, with a stale
\* read_hash: blocked SCOPE_VIOLATION, and the lock guard never ran
C38_Witness ==
    /\ call[1].pc = "done"
    /\ call[1].request.tool = "write_to_file"
    /\ ScopeViolated(call[1])
    /\ HashStale(call[1])
    /\ Blocked(call[1], "SCOPE_VIOLATION")
    /\ Len(call[1].preTrail) = 3

\* no intent, a stale read_hash: blocked NO_INTENT_DECLARED
NoIntentBeforeStale ==
    /\ call[1].pc = "done"
    /\ call[1].request.tool = "write_to_file"
    /\ NoIntentDeclared(call[1])
    /\ HashStale(call[1])
    /\ Blocked(call[1], "NO_INTENT_DECLARED")
    /\ Len(call[1].preTrail) = 2

\* no intent, a target outside the workspace: blocked NO_INTENT_DECLARED
NoIntentBeforeScope ==
    /\ call[1].pc = "done"
    /\ call[1].request.tool = "apply_diff"
    /\ NoIntentDeclared(call[1])
    /\ TargetOf(call[1].ctx) = Str("/etc/hosts.js")
    /\ Blocked(call[1], "NO_INTENT_DECLARED")

\* a stale read_hash alone: blocked STALE_FILE by the fourth hook
StaleAlone ==
    /\ call[1].pc = "done"
    /\ Blocked(call[1], "STALE_FILE")
    /\ Len(call[1].preTrail) = 4


---------------------------------------------------------------------------
(* Properties of the lock guard taken alone *)

\* the call declares a hash: params.read_hash is a non-empty string
HashDeclared(c) ==
    /\ IsString(LockGuardGiven(c).params["read_hash"])
    /\ LockGuardGiven(c).params["read_hash"].s # ""

\* the target of the call does not exist
LockTargetAbsent(c) ==
    /\ LockTarget(c) # Undefined
    /\ files[ResolveAbsolute(LockTarget(c).s)].state = "absent"

\* what the lock guard does on the tools in tools: it blocks, with STALE_FILE,
\* only a readable target with a declared hash that is not the fingerprint;
\* without a declared hash, or without the file, it passes; and the context it
\* passes has the snapshot exactly when the target could be read
LockGuardOn(tools) ==
    \A s \in Sessions :
        LET c == call[s]
        IN  (LockGuardRan(c) /\ c.request.tool \in tools)
            => /\ LockGuardOut(c).kind # "throw"
               /\ LockGuardOut(c).kind = "block"
                    => /\ LockGuardOut(c).code = "STALE_FILE"
                       /\ LockTargetReadable(c)
                       /\ HashDeclared(c)
                       /\ LockGuardGiven(c).params["read_hash"].s # CurrentFingerprint(c)
               /\ (~HashDeclared(c) \/ LockTargetAbsent(c)) => LockGuardOut(c).kind = "ctx"
               /\ LockGuardOut(c).kind = "ctx"
                    => /\ LockGuardOut(c).ctx.oldContent # Undefined <=> LockTargetReadable(c)
                       /\ LockTargetReadable(c)
                            => LockGuardOut(c).ctx.oldContent
                                 = Str(files[ResolveAbsolute(LockTarget(c).s)].content)

\* C40 Lock Guard never blocks without a declared hash: for a call of any
\* tool of the write set the lock guard returns STALE_FILE only if the target
\* exists, can be read and read_hash is a non-empty string other than the
\* fingerprint of the target; with read_hash absent, empty or not a string,
\* or with no file, the call passes; and the context that passes carries the
\* snapshot of the old content exactly when the file existed and was readable.
C40_NeverBlocksUndeclared == LockGuardOn(WriteSet)

\* the same on the tools the lock guard names in WRITE_TOOLS
LockGuardOnItsTools == LockGuardOn(WRITE_TOOLS)

\* delete_file on a readable target passed the lock guard without a snapshot
DeletePassedNoSnapshot ==
    /\ LockGuardRan(call[1])
    /\ call[1].request.tool = "delete_file"
    /\ LockTargetReadable(call[1])
    /\ LockGuardOut(call[1]).kind = "ctx"
    /\ LockGuardOut(call[1]).ctx.oldContent = Undefined

\* a write with read_hash 42 on a readable target passed with the snapshot
UndeclaredPassedWithSnapshot ==
    /\ LockGuardRan(call[1])
    /\ call[1].request.tool = "write_to_file"
    /\ LockTargetReadable(call[1])
    /\ call[1].request.params["read_hash"] = NonString("42")
    /\ LockGuardOut(call[1]).kind = "ctx"
    /\ LockGuardOut(call[1]).ctx.oldContent = Str(SrcF1)


---------------------------------------------------------------------------
(* Properties of the ledger under concurrent dispatches *)

\* the content the trace logger of session s reads from the target now
ContentNow(s) ==
    LET file == files[ResolveAbsolute(extractTargetPath(call[s].ctx).s)]
    IN  IF file.state = "ok" THEN file.content ELSE ""

\* C39 Ledger prefix monotonicity under concurrency: in every step of every
\* interleaving of two sessions the ledger after the step has the ledger
\* before it as a prefix, so no line is rewritten, truncated or removed; and
\* when it grows it grows by one line, which is as a whole the entry of the
\* one call whose trace logger took the step.
C39_LedgerPrefixMonotone ==
    [][/\ Len(ledger') >= Len(ledger)
       /\ SubSeq(ledger', 1, Len(ledger)) = ledger
       /\ ledger' # ledger
            => \E s \in Sessions :
                  /\ TraceLoggerStep(s)
                  /\ \A o \in Sessions \ {s} : call'[o] = call[o]
                  /\ extractTargetPath(call[s].ctx) # Undefined
                  /\ ledger' = Append(ledger, LineOver(s, ContentNow(s)))]_vars

\* two dispatches overlapped, both tools ran, and the ledger has the whole
\* entry of each on a line of its own
C39_Witness ==
    /\ call[1].pc \in {"post", "done"}
    /\ call[2].pc \in {"post", "done"}
    /\ call[1].toolCalls = 1
    /\ call[2].toolCalls = 1
    /\ call[1].postTrail # <<>>
    /\ call[2].postTrail # <<>>
    /\ ~call[1].appendFailed
    /\ ~call[2].appendFailed
    /\ call[1].request # call[2].request
    /\ Len(ledger) = 2
    /\ ledger[1] # ledger[2]

====
